---- MODULE Spec2Model ----
(***************************************************************************)
(* A model of pyexchange's entity synchronisation core: the dirty-attribute *)
(* tracker, the lifecycle operations of calendar events and folders         *)
(* (exchange2010/__init__.py), and the contact / mail / task base items.    *)
(*                                                                          *)
(* Every handler is an operator that takes the entity and the responses the *)
(* transport returns to its round trips, and yields the entity afterwards,  *)
(* the requests it sent, and the exception it raised ("none" when it        *)
(* returned normally).                                                      *)
(***************************************************************************)
EXTENDS Integers, Sequences, FiniteSets, TLC

VARIABLES entity, lastop, items, cls_dirty, server, sess

vars == <<entity, lastop, items, cls_dirty, server, sess>>

----------------------------------------------------------------------------
(* Bounds *)

\* identifiers the server hands out are 1..MaxId
MaxId == 2
\* change keys the server hands out are 1..MaxKey
MaxKey == 2

----------------------------------------------------------------------------
(* Values *)

\* Python's None for an id or a change key (ids and keys are 1, 2, ...)
None == 0
\* Python's None for a text field
NoneS == "None"
\* Python's None for recurrence_interval (0 is a legal int, out of range)
NoneI == -1

Ids == 1..MaxId
Keys == 1..MaxKey

\* the item classes that carry their own copy of the tracker
Classes == {"contact", "mail", "task"}

\* "none": the handler returned normally
NoRaise == "none"

\* the typed failures the transport raises (imported at line 14)
TransportFaults == {"ExchangeStaleChangeKeyException", "ExchangeItemNotFoundException"}

\* not x, for an id
Falsy(x) == x = None
\* not s, for a text value: None and the empty string are falsy
FalsyS(s) == s = NoneS \/ s = ""

\* a folder_id argument that is not a string (isinstance(..., BASESTRING_TYPES) fails)
NotAString == "<int>"
IsString(x) == x # NotAString /\ x # NoneS

----------------------------------------------------------------------------
(* Requests and responses *)

\* a request body built by soap_request
Req(op, id, ck, attrs, scope, target) == [op |-> op, id |-> id, change_key |-> ck, attrs |-> attrs, scope |-> scope, target |-> target]

\* what the transport does with a request: fault is "NoError" or the failure it
\* raises; items are the item (or folder) elements of the response in document
\* order, each with its id, change key and the properties it carries
Resp(fault, its) == [fault |-> fault, items |-> its]
NoResp == Resp("unused", <<>>)
Ok(r) == r.fault = "NoError"

----------------------------------------------------------------------------
(* Entities: calendar events and folders *)

\* the names of a calendar event's public fields
EventPublic == {"subject", "calendar_id", "start", "recurrence", "recurrence_interval", "recurrence_days", "recurrence_end_date"}
\* the names of a folder's public fields
FolderPublic == {"display_name", "parent_id", "folder_type"}
\* bookkeeping fields: their names start with an underscore
PrivateNames == {"_id", "_change_key", "_track_dirty_attributes", "_dirty_attributes", "_type", "_conflicting_event_ids"}
IsPrivate(key) == key \in PrivateNames

\* recurrence_days is None
NoDays == <<"<None>">>
WEEKLY_DAYS == {"Sunday", "Monday", "Tuesday", "Wednesday", "Thursday", "Friday", "Saturday"}

\* a calendar event object before its constructor ran: every field unset
BlankEvent == [kind |-> "event", _id |-> None, _change_key |-> None, _track_dirty_attributes |-> FALSE, _dirty_attributes |-> {}, _type |-> NoneS, _conflicting_event_ids |-> <<>>, subject |-> NoneS, calendar_id |-> NoneS, start |-> None, recurrence |-> NoneS, recurrence_interval |-> NoneI, recurrence_days |-> NoDays, recurrence_end_date |-> None]

\* a folder object before its constructor ran
BlankFolder == [kind |-> "folder", _id |-> None, _change_key |-> None, _track_dirty_attributes |-> FALSE, _dirty_attributes |-> {}, display_name |-> NoneS, parent_id |-> NoneS, folder_type |-> NoneS]

\* no object has been constructed yet
NoEntity == [kind |-> "absent"]

\* the result of a handler
Out(e, calls, raised) == [ent |-> e, calls |-> calls, raised |-> raised]

----------------------------------------------------------------------------
(* The dirty-attribute tracker of events and folders *)

\* assignment to a field: while tracking is enabled, a public name is recorded
set_field(e, key, value) == [[e EXCEPT !._dirty_attributes = IF e._track_dirty_attributes /\ ~IsPrivate(key) THEN @ \cup {key} ELSE @] EXCEPT ![key] = value]

\* reset(): the dirty set becomes empty
reset(e) == [e EXCEPT !._dirty_attributes = {}]

\* for key in properties: setattr(self, key, properties[key])
RECURSIVE bulk_apply(_, _, _)
bulk_apply(e, keys, val) == IF keys = {} THEN e ELSE LET k == CHOOSE k \in keys : TRUE IN bulk_apply(set_field(e, k, val[k]), keys \ {k}, val)

\* begin_bulk_load(values): tracking off, apply the values, tracking on
begin_bulk_load(e, keys, val) == [bulk_apply([e EXCEPT !._track_dirty_attributes = FALSE], keys, val) EXCEPT !._track_dirty_attributes = TRUE]

----------------------------------------------------------------------------
(* Parsing a response *)

\* the elements of the response that carry an ItemId / FolderId, in document order
id_elements(response) == SelectSeq(response.items, LAMBDA it : it.id # None)

\* the id and change key of the first ItemId / FolderId element, or None, None
_parse_id_and_change_key_from_response(response) == IF Len(id_elements(response)) > 0 THEN <<id_elements(response)[1].id, id_elements(response)[1].ck>> ELSE <<None, None>>

\* the first element of the response that matches the path of property key
first_match(response, key) == SelectSeq(response.items, LAMBDA it : key \in it.has)[1]

\* the properties found in the response: the names whose path matches an
\* element, each with the value of its first match
_parse_response_for_get_event(response) == LET keys == UNION {response.items[i].has : i \in 1..Len(response.items)} IN [keys |-> keys, val |-> [k \in keys |-> first_match(response, k).val[k]]]

----------------------------------------------------------------------------
(* Calendar events *)

\* BaseExchangeCalendarEvent.validate: the required fields are present
base_validate(e) == IF e.kind = "folder" /\ (FalsyS(e.display_name) \/ FalsyS(e.parent_id)) THEN "ValueError" ELSE NoRaise

\* recurrence_days.split(' '): the tokens between single spaces; the empty
\* string splits into one empty token
split(days) == IF days = <<>> THEN <<"">> ELSE days

\* isinstance(recurrence_interval, int) and lo <= recurrence_interval <= hi
interval_ok(e, lo, hi) == e.recurrence_interval # NoneI /\ lo <= e.recurrence_interval /\ e.recurrence_interval <= hi

\* validate() that accepts the interval 0 of a weekly recurrence
validate_weekly_from_zero(e) ==
  IF e.recurrence = NoneS THEN base_validate(e)
  ELSE IF e.recurrence_end_date = None THEN "ValueError"
  ELSE IF e.start = None THEN "AttributeError"
  ELSE IF e.recurrence_end_date < e.start THEN "ValueError"
  ELSE IF e.recurrence = "daily" THEN (IF ~interval_ok(e, 1, 999) THEN "ValueError" ELSE base_validate(e))
  ELSE IF e.recurrence = "weekly" THEN
         (IF ~interval_ok(e, 0, 99) THEN "ValueError"
          ELSE IF e.recurrence_days = NoDays THEN "ValueError"
          ELSE IF \E i \in 1..Len(split(e.recurrence_days)) : split(e.recurrence_days)[i] \notin WEEKLY_DAYS THEN "ValueError"
          ELSE base_validate(e))
  ELSE IF e.recurrence = "monthly" THEN (IF ~interval_ok(e, 1, 99) THEN "ValueError" ELSE base_validate(e))
  ELSE IF e.recurrence = "yearly" THEN base_validate(e)
  ELSE "ValueError"

\* validate() that requires the end date to be after the start date
validate_end_after_start(e) ==
  IF e.recurrence = NoneS THEN base_validate(e)
  ELSE IF e.recurrence_end_date = None THEN "ValueError"
  ELSE IF e.start = None THEN "AttributeError"
  ELSE IF e.recurrence_end_date <= e.start THEN "ValueError"
  ELSE IF e.recurrence = "daily" THEN (IF ~interval_ok(e, 1, 999) THEN "ValueError" ELSE base_validate(e))
  ELSE IF e.recurrence = "weekly" THEN
         (IF ~interval_ok(e, 1, 99) THEN "ValueError"
          ELSE IF e.recurrence_days = NoDays THEN "ValueError"
          ELSE IF \E i \in 1..Len(split(e.recurrence_days)) : split(e.recurrence_days)[i] \notin WEEKLY_DAYS THEN "ValueError"
          ELSE base_validate(e))
  ELSE IF e.recurrence = "monthly" THEN (IF ~interval_ok(e, 1, 99) THEN "ValueError" ELSE base_validate(e))
  ELSE IF e.recurrence = "yearly" THEN base_validate(e)
  ELSE "ValueError"

\* Exchange2010CalendarEvent.validate: the exception it raises, or "none"
validate(e) ==
  IF e.recurrence = NoneS THEN base_validate(e)
  ELSE IF e.recurrence_end_date = None THEN "ValueError"
  ELSE IF e.start = None THEN "AttributeError"
  ELSE IF e.recurrence_end_date < e.start THEN "ValueError"
  ELSE IF e.recurrence = "daily" THEN (IF ~interval_ok(e, 1, 999) THEN "ValueError" ELSE base_validate(e))
  ELSE IF e.recurrence = "weekly" THEN
         (IF ~interval_ok(e, 1, 99) THEN "ValueError"
          ELSE IF e.recurrence_days = NoDays THEN "ValueError"
          ELSE IF \E i \in 1..Len(split(e.recurrence_days)) : split(e.recurrence_days)[i] \notin WEEKLY_DAYS THEN "ValueError"
          ELSE base_validate(e))
  ELSE IF e.recurrence = "monthly" THEN (IF ~interval_ok(e, 1, 99) THEN "ValueError" ELSE base_validate(e))
  ELSE IF e.recurrence = "yearly" THEN base_validate(e)
  ELSE "ValueError"

\* soap_request.get_item(exchange_id=id, format=...)
get_item(id, format) == Req("GetItem", id, None, {}, format, "")

\* refresh_change_key that fetches the item but keeps the change key it held
refresh_change_key_keeps_key(e, r1) ==
  IF ~Ok(r1) THEN Out(e, <<get_item(e._id, "IdOnly")>>, r1.fault)
  ELSE Out(e, <<get_item(e._id, "IdOnly")>>, NoRaise)

\* Exchange2010CalendarEvent.refresh_change_key
refresh_change_key(e, r1) ==
  IF ~Ok(r1) THEN Out(e, <<get_item(e._id, "IdOnly")>>, r1.fault)
  ELSE Out([e EXCEPT !._id = _parse_id_and_change_key_from_response(r1)[1], !._change_key = _parse_id_and_change_key_from_response(r1)[2]], <<get_item(e._id, "IdOnly")>>, NoRaise)

\* Exchange2010CalendarEvent._init_from_service
_init_from_service(e, id, r1) ==
  IF ~Ok(r1) THEN Out(e, <<get_item(id, "AllProperties")>>, r1.fault)
  ELSE LET properties == _parse_response_for_get_event(r1)
       IN Out(reset([begin_bulk_load(e, properties.keys, properties.val) EXCEPT !._id = id]), <<get_item(id, "AllProperties")>>, NoRaise)

\* Exchange2010CalendarEvent._init_from_xml
_init_from_xml(e, xml) ==
  LET properties == _parse_response_for_get_event(xml)
      loaded == begin_bulk_load(e, properties.keys, properties.val)
  IN Out(reset([loaded EXCEPT !._id = _parse_id_and_change_key_from_response(xml)[1], !._change_key = _parse_id_and_change_key_from_response(xml)[2]]), <<>>, NoRaise)

\* Exchange2010CalendarEvent.create
create(e, r1) ==
  IF validate(e) # NoRaise THEN Out(e, <<>>, validate(e))
  ELSE IF ~Ok(r1) THEN Out(e, <<Req("CreateItem", None, None, EventPublic, "", e.calendar_id)>>, r1.fault)
  ELSE Out([e EXCEPT !._id = _parse_id_and_change_key_from_response(r1)[1], !._change_key = _parse_id_and_change_key_from_response(r1)[2]], <<Req("CreateItem", None, None, EventPublic, "", e.calendar_id)>>, NoRaise)

VALID_UPDATE_OPERATION_TYPES == {"SendToNone", "SendOnlyToAll", "SendOnlyToChanged", "SendToAllAndSaveCopy", "SendToChangedAndSaveCopy"}

\* soap_request.update_item(event, updated_attributes, calendar_item_update_operation_type)
update_item(e, attrs, scope) == Req("UpdateItem", e._id, e._change_key, attrs, scope, "")

\* update() that sends the update request with the change key it holds, without
\* refreshing it first
update_without_refresh(e, scope, kw, r1, r2) ==
  LET type == IF kw = "true" THEN "SendToChangedAndSaveCopy" ELSE scope
  IN IF Falsy(e._id) THEN Out(e, <<>>, "TypeError")
     ELSE IF type \notin VALID_UPDATE_OPERATION_TYPES THEN Out(e, <<>>, "ValueError")
     ELSE IF validate(e) # NoRaise THEN Out(e, <<>>, validate(e))
     ELSE IF e._dirty_attributes = {} THEN Out(e, <<>>, NoRaise)
     ELSE IF ~Ok(r1) THEN Out(e, <<update_item(e, e._dirty_attributes, type)>>, r1.fault)
     ELSE Out(reset(e), <<update_item(e, e._dirty_attributes, type)>>, NoRaise)

\* update() that sends its requests whether or not an attribute is dirty
update_always_sends(e, scope, kw, r1, r2) ==
  LET type == IF kw = "true" THEN "SendToChangedAndSaveCopy" ELSE scope
      a == refresh_change_key(e, r1)
  IN IF Falsy(e._id) THEN Out(e, <<>>, "TypeError")
     ELSE IF type \notin VALID_UPDATE_OPERATION_TYPES THEN Out(e, <<>>, "ValueError")
     ELSE IF validate(e) # NoRaise THEN Out(e, <<>>, validate(e))
     ELSE IF a.raised # NoRaise THEN a
     ELSE IF ~Ok(r2) THEN Out(a.ent, a.calls \o <<update_item(a.ent, e._dirty_attributes, type)>>, r2.fault)
     ELSE Out(reset(a.ent), a.calls \o <<update_item(a.ent, e._dirty_attributes, type)>>, NoRaise)

\* update() that does not check the notification scope
update_any_scope(e, scope, kw, r1, r2) ==
  LET type == IF kw = "true" THEN "SendToChangedAndSaveCopy" ELSE scope
      a == refresh_change_key(e, r1)
  IN IF Falsy(e._id) THEN Out(e, <<>>, "TypeError")
     ELSE IF validate(e) # NoRaise THEN Out(e, <<>>, validate(e))
     ELSE IF e._dirty_attributes = {} THEN Out(e, <<>>, NoRaise)
     ELSE IF a.raised # NoRaise THEN a
     ELSE IF ~Ok(r2) THEN Out(a.ent, a.calls \o <<update_item(a.ent, e._dirty_attributes, type)>>, r2.fault)
     ELSE Out(reset(a.ent), a.calls \o <<update_item(a.ent, e._dirty_attributes, type)>>, NoRaise)

\* update() that, when the write is refused, refreshes and writes once more
update_retries_on_stale(e, scope, kw, r1, r2) ==
  LET type == IF kw = "true" THEN "SendToChangedAndSaveCopy" ELSE scope
      a == refresh_change_key(e, r1)
      once == a.calls \o <<update_item(a.ent, e._dirty_attributes, type)>>
  IN IF Falsy(e._id) THEN Out(e, <<>>, "TypeError")
     ELSE IF type \notin VALID_UPDATE_OPERATION_TYPES THEN Out(e, <<>>, "ValueError")
     ELSE IF validate(e) # NoRaise THEN Out(e, <<>>, validate(e))
     ELSE IF e._dirty_attributes = {} THEN Out(e, <<>>, NoRaise)
     ELSE IF a.raised # NoRaise THEN a
     ELSE IF ~Ok(r2) THEN Out(a.ent, once \o once, r2.fault)
     ELSE Out(reset(a.ent), once, NoRaise)

\* update() that clears the dirty set before it sends the update request
update_clears_first(e, scope, kw, r1, r2) ==
  LET type == IF kw = "true" THEN "SendToChangedAndSaveCopy" ELSE scope
      a == refresh_change_key(e, r1)
  IN IF Falsy(e._id) THEN Out(e, <<>>, "TypeError")
     ELSE IF type \notin VALID_UPDATE_OPERATION_TYPES THEN Out(e, <<>>, "ValueError")
     ELSE IF validate(e) # NoRaise THEN Out(e, <<>>, validate(e))
     ELSE IF e._dirty_attributes = {} THEN Out(e, <<>>, NoRaise)
     ELSE IF a.raised # NoRaise THEN a
     ELSE IF ~Ok(r2) THEN Out(reset(a.ent), a.calls \o <<update_item(a.ent, e._dirty_attributes, type)>>, r2.fault)
     ELSE Out(reset(a.ent), a.calls \o <<update_item(a.ent, e._dirty_attributes, type)>>, NoRaise)

\* Exchange2010CalendarEvent.update; kw is the deprecated keyword argument
\* send_only_to_changed_attendees: "absent", "true" or "false"
update(e, scope, kw, r1, r2) ==
  LET type == IF kw = "true" THEN "SendToChangedAndSaveCopy" ELSE scope
      a == refresh_change_key(e, r1)
  IN IF Falsy(e._id) THEN Out(e, <<>>, "TypeError")
     ELSE IF type \notin VALID_UPDATE_OPERATION_TYPES THEN Out(e, <<>>, "ValueError")
     ELSE IF validate(e) # NoRaise THEN Out(e, <<>>, validate(e))
     ELSE IF e._dirty_attributes = {} THEN Out(e, <<>>, NoRaise)
     ELSE IF a.raised # NoRaise THEN a
     ELSE IF ~Ok(r2) THEN Out(a.ent, a.calls \o <<update_item(a.ent, e._dirty_attributes, type)>>, r2.fault)
     ELSE Out(reset(a.ent), a.calls \o <<update_item(a.ent, e._dirty_attributes, type)>>, NoRaise)

\* resend_invitations() that does not look at the dirty set
resend_invitations_unchecked(e, r1, r2) ==
  LET a == refresh_change_key(e, r1)
  IN IF Falsy(e._id) THEN Out(e, <<>>, "TypeError")
     ELSE IF a.raised # NoRaise THEN a
     ELSE IF ~Ok(r2) THEN Out(a.ent, a.calls \o <<update_item(a.ent, {}, "SendOnlyToAll")>>, r2.fault)
     ELSE Out(a.ent, a.calls \o <<update_item(a.ent, {}, "SendOnlyToAll")>>, NoRaise)

\* resend_invitations() that sends the update with the default scope of update()
resend_invitations_saves_copy(e, r1, r2) ==
  LET a == refresh_change_key(e, r1)
  IN IF Falsy(e._id) THEN Out(e, <<>>, "TypeError")
     ELSE IF e._dirty_attributes # {} THEN Out(e, <<>>, "ValueError")
     ELSE IF a.raised # NoRaise THEN a
     ELSE IF ~Ok(r2) THEN Out(a.ent, a.calls \o <<update_item(a.ent, {}, "SendToAllAndSaveCopy")>>, r2.fault)
     ELSE Out(a.ent, a.calls \o <<update_item(a.ent, {}, "SendToAllAndSaveCopy")>>, NoRaise)

\* Exchange2010CalendarEvent.resend_invitations
resend_invitations(e, r1, r2) ==
  LET a == refresh_change_key(e, r1)
  IN IF Falsy(e._id) THEN Out(e, <<>>, "TypeError")
     ELSE IF e._dirty_attributes # {} THEN Out(e, <<>>, "ValueError")
     ELSE IF a.raised # NoRaise THEN a
     ELSE IF ~Ok(r2) THEN Out(a.ent, a.calls \o <<update_item(a.ent, {}, "SendOnlyToAll")>>, r2.fault)
     ELSE Out(a.ent, a.calls \o <<update_item(a.ent, {}, "SendOnlyToAll")>>, NoRaise)

\* soap_request.delete_event(event)
delete_event(e) == Req("DeleteItem", e._id, e._change_key, {}, "", "")

\* cancel() that sends the delete request without refreshing the change key
cancel_without_refresh(e, r1, r2) ==
  IF Falsy(e._id) THEN Out(e, <<>>, "TypeError")
  ELSE IF ~Ok(r1) THEN Out(e, <<delete_event(e)>>, r1.fault)
  ELSE Out(e, <<delete_event(e)>>, NoRaise)

\* cancel() that sends the delete request although the refresh failed
cancel_ignores_refresh_failure(e, r1, r2) ==
  LET a == refresh_change_key(e, r1)
  IN IF Falsy(e._id) THEN Out(e, <<>>, "TypeError")
     ELSE IF ~Ok(r2) THEN Out(a.ent, a.calls \o <<delete_event(a.ent)>>, r2.fault)
     ELSE Out(a.ent, a.calls \o <<delete_event(a.ent)>>, NoRaise)

\* Exchange2010CalendarEvent.cancel
cancel(e, r1, r2) ==
  LET a == refresh_change_key(e, r1)
  IN IF Falsy(e._id) THEN Out(e, <<>>, "TypeError")
     ELSE IF a.raised # NoRaise THEN a
     ELSE IF ~Ok(r2) THEN Out(a.ent, a.calls \o <<delete_event(a.ent)>>, r2.fault)
     ELSE Out(a.ent, a.calls \o <<delete_event(a.ent)>>, NoRaise)

\* soap_request.move_event(event, folder_id)
move_event(e, folder_id) == Req("MoveItem", e._id, e._change_key, {}, "", folder_id)

\* move_to() that assigns the container reference before it looks at the
\* response to the move request
move_to_assigns_first(e, folder_id, r1, r2) ==
  LET a == refresh_change_key(e, r1)
      new == _parse_id_and_change_key_from_response(r2)
  IN IF FalsyS(folder_id) THEN Out(e, <<>>, "TypeError")
     ELSE IF ~IsString(folder_id) THEN Out(e, <<>>, "TypeError")
     ELSE IF Falsy(e._id) THEN Out(e, <<>>, "TypeError")
     ELSE IF a.raised # NoRaise THEN a
     ELSE IF ~Ok(r2) THEN Out(a.ent, a.calls \o <<move_event(a.ent, folder_id)>>, r2.fault)
     ELSE IF Falsy(new[1]) THEN Out(set_field(a.ent, "calendar_id", folder_id), a.calls \o <<move_event(a.ent, folder_id)>>, "ValueError")
     ELSE Out(set_field([a.ent EXCEPT !._id = new[1], !._change_key = new[2]], "calendar_id", folder_id), a.calls \o <<move_event(a.ent, folder_id)>>, NoRaise)

\* Exchange2010CalendarEvent.move_to
move_to(e, folder_id, r1, r2) ==
  LET a == refresh_change_key(e, r1)
      new == _parse_id_and_change_key_from_response(r2)
  IN IF FalsyS(folder_id) THEN Out(e, <<>>, "TypeError")
     ELSE IF ~IsString(folder_id) THEN Out(e, <<>>, "TypeError")
     ELSE IF Falsy(e._id) THEN Out(e, <<>>, "TypeError")
     ELSE IF a.raised # NoRaise THEN a
     ELSE IF ~Ok(r2) THEN Out(a.ent, a.calls \o <<move_event(a.ent, folder_id)>>, r2.fault)
     ELSE IF Falsy(new[1]) THEN Out(a.ent, a.calls \o <<move_event(a.ent, folder_id)>>, "ValueError")
     ELSE Out(set_field([a.ent EXCEPT !._id = new[1], !._change_key = new[2]], "calendar_id", folder_id), a.calls \o <<move_event(a.ent, folder_id)>>, NoRaise)

----------------------------------------------------------------------------
(* Folders *)

\* soap_request.get_folder(folder_id=id, format=u'AllProperties')
get_folder(id) == Req("GetFolder", id, None, {}, "AllProperties", "")

\* Exchange2010Folder._parse_folder_properties on the folder element path of
\* the response: sets the bookkeeping fields and folder_type
_parse_folder_properties(f, response, path) ==
  LET parents == SelectSeq(response.items, LAMBDA it : "parent_id" \in it.has)
      parent == IF Len(parents) > 0 THEN parents[1].val.parent_id ELSE NoneS
  IN set_field([f EXCEPT !._id = _parse_id_and_change_key_from_response(response)[1], !._change_key = _parse_id_and_change_key_from_response(response)[2], !.parent_id = parent], "folder_type", path.val.folder_type)

\* Exchange2010Folder._init_from_xml; _parse_response_for_get_folder takes the
\* first folder element of the response, [0] of an empty match raises
Folder_init_from_xml(f, xml) ==
  IF Len(xml.items) = 0 THEN Out(f, <<>>, "IndexError")
  ELSE Out(begin_bulk_load(_parse_folder_properties(f, xml, xml.items[1]), xml.items[1].has \cap {"display_name"}, xml.items[1].val), <<>>, NoRaise)

\* Exchange2010Folder._init_from_service
Folder_init_from_service(f, id, r1) ==
  IF ~Ok(r1) THEN Out(f, <<get_folder(id)>>, r1.fault)
  ELSE Out(Folder_init_from_xml(f, r1).ent, <<get_folder(id)>>, Folder_init_from_xml(f, r1).raised)

\* Exchange2010Folder.create
Folder_create(f, r1) ==
  IF base_validate(f) # NoRaise THEN Out(f, <<>>, base_validate(f))
  ELSE IF ~Ok(r1) THEN Out(f, <<Req("CreateFolder", None, None, FolderPublic, "", f.parent_id)>>, r1.fault)
  ELSE Out([f EXCEPT !._id = _parse_id_and_change_key_from_response(r1)[1], !._change_key = _parse_id_and_change_key_from_response(r1)[2]], <<Req("CreateFolder", None, None, FolderPublic, "", f.parent_id)>>, NoRaise)

\* soap_request.delete_folder(folder)
delete_folder(f) == Req("DeleteFolder", f._id, None, {}, "", "")

\* delete() without the check that the folder has an id
Folder_delete_unchecked(f, r1) ==
  IF ~Ok(r1) THEN Out(f, <<delete_folder(f)>>, r1.fault)
  ELSE Out([f EXCEPT !._id = None, !._change_key = None], <<delete_folder(f)>>, NoRaise)

\* Exchange2010Folder.delete
Folder_delete(f, r1) ==
  IF Falsy(f._id) THEN Out(f, <<>>, "TypeError")
  ELSE IF ~Ok(r1) THEN Out(f, <<delete_folder(f)>>, r1.fault)
  ELSE Out([f EXCEPT !._id = None, !._change_key = None], <<delete_folder(f)>>, NoRaise)

\* soap_request.move_folder(folder, folder_id)
move_folder(f, folder_id) == Req("MoveFolder", f._id, None, {}, "", folder_id)

\* Exchange2010Folder.move_to
Folder_move_to(f, folder_id, r1) ==
  IF FalsyS(folder_id) THEN Out(f, <<>>, "TypeError")
  ELSE IF ~IsString(folder_id) THEN Out(f, <<>>, "TypeError")
  ELSE IF Falsy(f._id) THEN Out(f, <<>>, "TypeError")
  ELSE IF ~Ok(r1) THEN Out(f, <<move_folder(f, folder_id)>>, r1.fault)
  ELSE IF f._id # _parse_id_and_change_key_from_response(r1)[1] THEN Out(f, <<move_folder(f, folder_id)>>, "ValueError")
  ELSE Out(set_field(f, "parent_id", folder_id), <<move_folder(f, folder_id)>>, NoRaise)

----------------------------------------------------------------------------
(* Constructors: the dispatch of BaseExchangeCalendarEvent.__init__ and
   BaseExchangeFolder.__init__ on xml / id / keyword values *)

\* Exchange2010CalendarEvent(service, calendar_id=..., **kwargs)
new_event(calendar_id, keys, val) == Out(begin_bulk_load([BlankEvent EXCEPT !.calendar_id = calendar_id], keys, val), <<>>, NoRaise)

\* Exchange2010CalendarEvent(service, id=id)
get_event(id, r1) == _init_from_service([BlankEvent EXCEPT !.calendar_id = "calendar"], id, r1)

\* Exchange2010CalendarEvent(service, xml=xml)
event_from_xml(xml) == _init_from_xml([BlankEvent EXCEPT !.calendar_id = "calendar"], xml)

\* Exchange2010Folder(service, **properties)
new_folder(keys, val) == Out(begin_bulk_load(BlankFolder, keys, val), <<>>, NoRaise)

\* Exchange2010Folder(service, id=id)
get_folder_by_id(id, r1) == Folder_init_from_service(BlankFolder, id, r1)

\* Exchange2010Folder(service, xml=xml)
folder_from_xml(xml) == Folder_init_from_xml(BlankFolder, xml)

----------------------------------------------------------------------------
(* The single-client lifecycle: one entity, a transport that may answer any
   request with a fault or with any well-formed response *)

\* an item / folder element of a response
Item(id, ck, has, val) == [id |-> id, ck |-> ck, has |-> has, val |-> val]

\* the responses to a request that asks for ids only, or whose items the
\* handler reads only for their id and change key
IdResponses == {Resp(f, <<>>) : f \in TransportFaults \cup {"NoError"}} \cup {Resp("NoError", <<Item(id, ck, {}, BlankEvent)>>) : id \in Ids, ck \in Keys \cup {None}}

\* the responses to a request whose response content the handler does not read
AckResponses == {Resp(f, <<>>) : f \in TransportFaults \cup {"NoError"}}

\* the calendar items a get-item with all properties may return
LoadedEvents == {BlankEvent, [BlankEvent EXCEPT !.subject = "a", !.start = 1], [BlankEvent EXCEPT !.subject = "a", !.start = 1, !.recurrence = "yearly"]}
EventResponses == {Resp(f, <<>>) : f \in TransportFaults \cup {"NoError"}} \cup {Resp("NoError", <<Item(id, ck, {k \in EventPublic : v[k] # BlankEvent[k]}, v)>>) : id \in Ids \cup {None}, ck \in Keys, v \in LoadedEvents}

\* the folder elements a get-folder may return
LoadedFolders == {[BlankFolder EXCEPT !.folder_type = "Folder"], [BlankFolder EXCEPT !.folder_type = "CalendarFolder", !.display_name = "n", !.parent_id = "p"]}
FolderResponses == {Resp(f, <<>>) : f \in TransportFaults \cup {"NoError"}} \cup {Resp("NoError", <<Item(id, ck, {k \in FolderPublic : v[k] # BlankFolder[k]}, v)>>) : id \in Ids \cup {None}, ck \in Keys, v \in LoadedFolders}

\* the keyword values a caller constructs an event / a folder with
EventKwargs == {BlankEvent, [BlankEvent EXCEPT !.subject = "a", !.start = 1]}
FolderKwargs == {BlankFolder, [BlankFolder EXCEPT !.display_name = "n", !.parent_id = "p"]}

\* the assignments a caller makes to a public field
EventAssignments == {<<"subject", "b">>, <<"recurrence", "yearly">>}
FolderAssignments == {<<"display_name", "n">>, <<"display_name", "">>}

\* the arguments of move_to
FolderIdArgs == {"", NotAString, "other"}
\* the arguments of update: the notification scope and the deprecated keyword
\* send_only_to_changed_attendees
UpdateArgs == {<<"SendToAllAndSaveCopy", "absent">>, <<"SendToNone", "absent">>, <<"SendToSome", "absent">>, <<"SendToSome", "true">>}

Arg(scope, kw, folder_id, key, id) == [scope |-> scope, kw |-> kw, folder_id |-> folder_id, key |-> key, id |-> id]
NoArg == Arg("", "", "", "", None)

\* lastop when nothing has been called yet
NoOp == [op |-> "none", arg |-> NoArg, pre |-> NoEntity, resps |-> <<>>, calls |-> <<>>, raised |-> NoRaise]

\* the caller holds the entity and no call is in progress or being observed
Idle == lastop.op = "none"

\* the responses the handler received: one for each request it sent
Answered(resps, calls) == SubSeq(resps, 1, IF Len(calls) < Len(resps) THEN Len(calls) ELSE Len(resps))

\* a method call on the entity: out is what the handler yields for the
\* responses resps, of which it consumed one per request it sent
Call(op, arg, out, resps) ==
  /\ Idle
  /\ entity' = out.ent
  /\ lastop' = [op |-> op, arg |-> arg, pre |-> entity, resps |-> Answered(resps, out.calls), calls |-> out.calls, raised |-> out.raised]
  /\ UNCHANGED <<items, cls_dirty, server, sess>>

\* a constructor call: a constructor that raises yields no object
Construct(op, arg, out, resps) ==
  /\ Idle
  /\ entity = NoEntity
  /\ entity' = IF out.raised = NoRaise THEN out.ent ELSE NoEntity
  /\ lastop' = [op |-> op, arg |-> arg, pre |-> NoEntity, resps |-> Answered(resps, out.calls), calls |-> out.calls, raised |-> out.raised]
  /\ UNCHANGED <<items, cls_dirty, server, sess>>

\* a handler with one round trip, H[r1] its outcome for response r1: the
\* response is drawn only when the handler gets as far as sending the request
Call1(op, arg, H, R1) ==
  IF Len(H[NoResp].calls) = 0 THEN Call(op, arg, H[NoResp], <<>>)
  ELSE \E r1 \in R1 : Call(op, arg, H[r1], <<r1>>)

\* a handler with two round trips, H[r1, r2] its outcome
Call2(op, arg, H, R1, R2) ==
  IF Len(H[NoResp, NoResp].calls) = 0 THEN Call(op, arg, H[NoResp, NoResp], <<>>)
  ELSE \E r1 \in R1 : IF Len(H[r1, NoResp].calls) = 1 THEN Call(op, arg, H[r1, NoResp], <<r1>>)
                      ELSE \E r2 \in R2 : Call(op, arg, H[r1, r2], <<r1, r2>>)

IsEvent == entity.kind = "event"
IsFolder == entity.kind = "folder"

NewEvent == \E v \in EventKwargs : Construct("new_event", NoArg, new_event("calendar", {k \in EventPublic : v[k] # BlankEvent[k]}, v), <<>>)
GetEvent == \E id \in Ids, r1 \in EventResponses : Construct("get_event", Arg("", "", "", "", id), get_event(id, r1), <<r1>>)
EventFromXml == \E xml \in EventResponses : Ok(xml) /\ Construct("event_from_xml", NoArg, event_from_xml(xml), <<>>)
NewFolder == \E v \in FolderKwargs : Construct("new_folder", NoArg, new_folder({k \in FolderPublic : v[k] # BlankFolder[k]}, v), <<>>)
GetFolder == \E id \in Ids, r1 \in FolderResponses : Construct("get_folder", Arg("", "", "", "", id), get_folder_by_id(id, r1), <<r1>>)
FolderFromXml == \E xml \in FolderResponses : Ok(xml) /\ Construct("folder_from_xml", NoArg, folder_from_xml(xml), <<>>)

SetEventField == IsEvent /\ \E a \in EventAssignments : Call("setattr", Arg("", "", "", a[1], None), Out(set_field(entity, a[1], a[2]), <<>>, NoRaise), <<>>)
SetFolderField == IsFolder /\ \E a \in FolderAssignments : Call("setattr", Arg("", "", "", a[1], None), Out(set_field(entity, a[1], a[2]), <<>>, NoRaise), <<>>)

Create == IsEvent /\ Call1("create", NoArg, [r1 \in IdResponses \cup {NoResp} |-> create(entity, r1)], IdResponses)
Update == IsEvent /\ \E a \in UpdateArgs : Call2("update", Arg(a[1], a[2], "", "", None), [r1 \in IdResponses \cup {NoResp}, r2 \in AckResponses \cup {NoResp} |-> update(entity, a[1], a[2], r1, r2)], IdResponses, AckResponses)
ResendInvitations == IsEvent /\ Call2("resend_invitations", NoArg, [r1 \in IdResponses \cup {NoResp}, r2 \in AckResponses \cup {NoResp} |-> resend_invitations(entity, r1, r2)], IdResponses, AckResponses)
Cancel == IsEvent /\ Call2("cancel", NoArg, [r1 \in IdResponses \cup {NoResp}, r2 \in AckResponses \cup {NoResp} |-> cancel(entity, r1, r2)], IdResponses, AckResponses)
MoveTo == IsEvent /\ \E folder_id \in FolderIdArgs : Call2("move_to", Arg("", "", folder_id, "", None), [r1 \in IdResponses \cup {NoResp}, r2 \in IdResponses \cup {NoResp} |-> move_to(entity, folder_id, r1, r2)], IdResponses, IdResponses)
RefreshChangeKey == IsEvent /\ Call1("refresh_change_key", NoArg, [r1 \in IdResponses \cup {NoResp} |-> refresh_change_key(entity, r1)], IdResponses)

FolderCreate == IsFolder /\ Call1("create", NoArg, [r1 \in IdResponses \cup {NoResp} |-> Folder_create(entity, r1)], IdResponses)
FolderDelete == IsFolder /\ Call1("delete", NoArg, [r1 \in AckResponses \cup {NoResp} |-> Folder_delete(entity, r1)], AckResponses)
FolderMoveTo == IsFolder /\ \E folder_id \in FolderIdArgs : Call1("move_to", Arg("", "", folder_id, "", None), [r1 \in IdResponses \cup {NoResp} |-> Folder_move_to(entity, folder_id, r1)], IdResponses)

\* the call has returned: the caller goes on with the entity as it is now
Return ==
  /\ ~Idle
  /\ lastop' = NoOp
  /\ UNCHANGED <<entity, items, cls_dirty, server, sess>>

\* the caller drops the object
Discard ==
  /\ Idle
  /\ entity # NoEntity
  /\ entity' = NoEntity
  /\ UNCHANGED <<lastop, items, cls_dirty, server, sess>>

\* the versions the stored event goes through: every applied write gives it
\* the next change key
MaxVersion == 4

\* the server stores one calendar event
InitialServer == [id |-> 1, ck |-> 1, subject |-> "a"]

\* the client sessions
Sessions == {"A", "B"}

\* the last update() a session completed: its outcome, whether the server
\* applied its write, whether another session's write was applied since this
\* session loaded the event (missed) and since this update()'s refresh (raced)
NoUpdate == [done |-> FALSE, result |-> NoRaise, applied |-> FALSE, missed |-> FALSE, raced |-> FALSE]

\* a session that has not loaded the event yet
NoSession == [ent |-> NoEntity, pc |-> "start", r1 |-> NoResp, missed |-> FALSE, raced |-> FALSE, last |-> NoUpdate]

Init ==
  /\ entity = NoEntity
  /\ lastop = NoOp
  /\ items = <<>>
  /\ cls_dirty = [cls \in Classes |-> {}]
  /\ server = InitialServer
  /\ sess = [s \in Sessions |-> NoSession]

Next ==
  \/ NewEvent \/ GetEvent \/ EventFromXml
  \/ NewFolder \/ GetFolder \/ FolderFromXml
  \/ SetEventField \/ SetFolderField
  \/ Create \/ Update \/ ResendInvitations \/ Cancel \/ MoveTo \/ RefreshChangeKey
  \/ FolderCreate \/ FolderDelete \/ FolderMoveTo
  \/ Return \/ Discard

Spec == Init /\ [][Next]_vars

----------------------------------------------------------------------------
(* Contact, mail and task items (base/contacts.py, base/mail.py, base/tasks.py):
   the tracker as Python runs it. _track_dirty_attributes and _dirty_attributes
   are class attributes; an object reads the class's value until an assignment
   gives it an attribute of its own. The class's _dirty_attributes is one set
   object, which every object without a set of its own reads and adds to. *)

\* the public field names used of each class
PublicOf(cls) == IF cls = "contact" THEN {"first_name", "last_name"} ELSE IF cls = "mail" THEN {"subject", "datetime_sent"} ELSE {"subject", "body"}

\* the names an assignment may have: those not starting with an underscore are public
startswith_underscore(key) == key \in {"_id", "_change_key", "_track_dirty_attributes", "_dirty_attributes"}

\* an object right after allocation: it has no attribute of its own
BlankItem(cls) == [cls |-> cls, has_track |-> FALSE, track |-> FALSE, has_dirty |-> FALSE, dirty |-> {}, _id |-> None, _change_key |-> None, service |-> FALSE, folder_id |-> NoneS, vals |-> [k \in PublicOf(cls) |-> NoneS]]

\* the objects and the class-level sets
Heap(its, cd) == [items |-> its, cls_dirty |-> cd]

\* self._track_dirty_attributes
track_of(o) == IF o.has_track THEN o.track ELSE FALSE

\* self._dirty_attributes, read through object i
dirty_of(h, i) == IF h.items[i].has_dirty THEN h.items[i].dirty ELSE h.cls_dirty[h.items[i].cls]

\* object.__setattr__(self, key, value)
object_setattr(o, key, value) ==
  CASE key = "_id" -> [o EXCEPT !._id = value]
    [] key = "_change_key" -> [o EXCEPT !._change_key = value]
    [] key = "_track_dirty_attributes" -> [o EXCEPT !.has_track = TRUE, !.track = value]
    [] key = "_dirty_attributes" -> [o EXCEPT !.has_dirty = TRUE, !.dirty = value]
    [] key = "service" -> [o EXCEPT !.service = value]
    [] key = "folder_id" -> [o EXCEPT !.folder_id = value]
    [] OTHER -> [o EXCEPT !.vals[key] = value]

\* self._dirty_attributes.add(key), through object i
dirty_add(h, i, key) ==
  IF h.items[i].has_dirty THEN [h EXCEPT !.items[i].dirty = @ \cup {key}]
  ELSE [h EXCEPT !.cls_dirty[h.items[i].cls] = @ \cup {key}]

\* the value object i holds for key (public field names only)
value_of(o, key) == IF key = "service" THEN o.service ELSE IF key = "folder_id" THEN o.folder_id ELSE o.vals[key]

\* __setattr__ that records a public name only when the value changes
__setattr__on_change(h, i, key, value) ==
  LET h1 == IF track_of(h.items[i]) /\ ~startswith_underscore(key) /\ value_of(h.items[i], key) # value THEN dirty_add(h, i, key) ELSE h
  IN [h1 EXCEPT !.items[i] = object_setattr(@, key, value)]

\* __setattr__ that records every name assigned while tracking is on
__setattr__records_private(h, i, key, value) ==
  LET h1 == IF track_of(h.items[i]) THEN dirty_add(h, i, key) ELSE h
  IN [h1 EXCEPT !.items[i] = object_setattr(@, key, value)]

\* BaseExchangeContactItem.__setattr__ (the same in mail.py and tasks.py)
__setattr__(h, i, key, value) ==
  LET h1 == IF track_of(h.items[i]) /\ ~startswith_underscore(key) THEN dirty_add(h, i, key) ELSE h
  IN [h1 EXCEPT !.items[i] = object_setattr(@, key, value)]

\* for key in properties: setattr(self, key, properties[key])
RECURSIVE setattr_all(_, _, _, _)
setattr_all(h, i, keys, val) == IF keys = {} THEN h ELSE LET k == CHOOSE k \in keys : TRUE IN setattr_all(__setattr__(h, i, k, val[k]), i, keys \ {k}, val)

\* _update_properties that applies the values with tracking left on
_update_properties_tracking(h, i, keys, val) == __setattr__(setattr_all(__setattr__(h, i, "_track_dirty_attributes", TRUE), i, keys, val), i, "_track_dirty_attributes", TRUE)

\* BaseExchangeContactItem._update_properties (the same in mail.py and tasks.py)
_update_properties(h, i, keys, val) == __setattr__(setattr_all(__setattr__(h, i, "_track_dirty_attributes", FALSE), i, keys, val), i, "_track_dirty_attributes", TRUE)

\* BaseExchangeContactItem._reset_dirty_attributes
_reset_dirty_attributes(h, i) == __setattr__(h, i, "_dirty_attributes", {})

\* the outcome of a constructor or method on the heap
HOut(h, calls, raised) == [heap |-> h, calls |-> calls, raised |-> raised]

\* Exchange2010ContactItem._parse_contact_properties and
\* Exchange2010MailItem._parse_mail_properties: the id (first ItemId/@Id), the
\* change key (first ItemId/@ChangeKey) and the other properties found
_parse_item_properties(xml) ==
  LET ids == SelectSeq(xml.items, LAMBDA it : it.id # None)
      cks == SelectSeq(xml.items, LAMBDA it : it.ck # None)
  IN [id |-> IF Len(ids) > 0 THEN ids[1].id ELSE None, change_key |-> IF Len(cks) > 0 THEN cks[1].ck ELSE None, rest |-> _parse_response_for_get_event(xml)]

\* Exchange2010ContactItem._init_from_xml, Exchange2010MailItem._init_from_xml:
\* properties.pop raises KeyError for an id or change key that was not found
Item_init_from_xml(h, i, xml) ==
  LET properties == _parse_item_properties(xml)
  IN IF h.items[i].cls = "task" THEN HOut(h, <<>>, "NotImplementedError")
     ELSE IF properties.id = None THEN HOut(h, <<>>, "KeyError")
     ELSE IF properties.change_key = None THEN HOut(__setattr__(h, i, "_id", properties.id), <<>>, "KeyError")
     ELSE HOut(_update_properties(__setattr__(__setattr__(h, i, "_id", properties.id), i, "_change_key", properties.change_key), i, properties.rest.keys, properties.rest.val), <<>>, NoRaise)

\* Exchange2010ContactItem._init_from_service, Exchange2010MailItem._init_from_service
Item_init_from_service(h, i, id, r1) ==
  IF h.items[i].cls = "task" THEN HOut(h, <<>>, "NotImplementedError")
  ELSE IF ~Ok(r1) THEN HOut(h, <<get_item(id, "AllProperties")>>, r1.fault)
  ELSE HOut(Item_init_from_xml(h, i, r1).heap, <<get_item(id, "AllProperties")>>, Item_init_from_xml(h, i, r1).raised)

\* BaseExchangeContactItem.__init__ / BaseExchangeMailItem.__init__ /
\* BaseExchangeTaskItem.__init__ on a newly allocated object; mode is "xml",
\* "id" or "kwargs"; mail and task items also assign folder_id
Item__init__(h, cls, mode, id, r1, keys, val) ==
  LET i == Len(h.items) + 1
      h0 == __setattr__([h EXCEPT !.items = Append(@, BlankItem(cls))], i, "service", TRUE)
      h1 == IF cls = "contact" THEN h0 ELSE __setattr__(h0, i, "folder_id", "inbox")
  IN IF mode = "xml" THEN Item_init_from_xml(h1, i, r1)
     ELSE IF mode = "kwargs" THEN HOut(_update_properties(h1, i, keys, val), <<>>, NoRaise)
     ELSE Item_init_from_service(h1, i, id, r1)

\* Exchange2010MailItem.load_details_from_xml(xml): the extended properties found
load_details_from_xml(h, i, xml) == HOut(_update_properties(h, i, _parse_response_for_get_event(xml).keys \cap {"datetime_sent"}, _parse_response_for_get_event(xml).val), <<>>, NoRaise)

----------------------------------------------------------------------------
(* The items of one class: objects are constructed, assigned to, and loaded *)

\* at most MaxItems objects are constructed
MaxItems == 2

\* the keyword values an item is constructed with, the properties a response carries
ItemProps(cls) == {[k \in PublicOf(cls) |-> NoneS], [k \in PublicOf(cls) |-> IF k \in {"first_name", "subject"} THEN "x" ELSE NoneS]}
ItemPropsFound(cls, v) == {k \in PublicOf(cls) : v[k] # NoneS}

\* the responses to a get-item for a contact or a mail
ItemResponses(cls) == {Resp(f, <<>>) : f \in TransportFaults \cup {"NoError"}} \cup {Resp("NoError", <<Item(1, ck, ItemPropsFound(cls, v), v)>>) : ck \in {None, 1}, v \in ItemProps(cls)}

\* the responses to a get-item for the extended properties of a mail
DetailResponses == {Resp("NoError", <<>>), Resp("NoError", <<Item(1, 1, {"datetime_sent"}, [k \in PublicOf("mail") |-> IF k = "datetime_sent" THEN "x" ELSE NoneS])>>)}

\* the assignments a caller makes to an item
ItemAssignments(cls) == {<<k, "x">> : k \in PublicOf(cls) \ {"datetime_sent"}} \cup {<<k, "y">> : k \in {"first_name"} \cap PublicOf(cls)}

\* every object constructed so far has class cls
SameClass(cls) == \A i \in 1..Len(items) : items[i].cls = cls

\* a constructor or method call on the items: a constructor that raises yields no object
ItemCall(op, key, i, out, resps) ==
  /\ Idle
  /\ items' = IF op \in {"item.new", "item.from_xml", "item.get"} /\ out.raised # NoRaise THEN items ELSE out.heap.items
  /\ cls_dirty' = out.heap.cls_dirty
  /\ lastop' = [op |-> op, arg |-> Arg("", "", "", key, i), pre |-> [kind |-> "items", items |-> items, cls_dirty |-> cls_dirty], resps |-> Answered(resps, out.calls), calls |-> out.calls, raised |-> out.raised]
  /\ UNCHANGED <<entity, server, sess>>

NewItem == \E cls \in Classes : SameClass(cls) /\ Len(items) < MaxItems /\ \E v \in ItemProps(cls) : ItemCall("item.new", "", Len(items) + 1, Item__init__(Heap(items, cls_dirty), cls, "kwargs", None, NoResp, ItemPropsFound(cls, v), v), <<>>)
ItemFromXml == \E cls \in Classes : SameClass(cls) /\ Len(items) < MaxItems /\ \E xml \in ItemResponses(cls) : Ok(xml) /\ ItemCall("item.from_xml", "", Len(items) + 1, Item__init__(Heap(items, cls_dirty), cls, "xml", None, xml, {}, <<>>), <<>>)
GetItem == \E cls \in Classes : SameClass(cls) /\ Len(items) < MaxItems /\ \E r1 \in ItemResponses(cls) : ItemCall("item.get", "", Len(items) + 1, Item__init__(Heap(items, cls_dirty), cls, "id", 1, r1, {}, <<>>), <<r1>>)
SetItemField == \E i \in 1..Len(items) : \E a \in ItemAssignments(items[i].cls) : ItemCall("item.setattr", a[1], i, HOut(__setattr__(Heap(items, cls_dirty), i, a[1], a[2]), <<>>, NoRaise), <<>>)
SetItemId == \E i \in 1..Len(items) : \E id \in Ids : ItemCall("item.setattr", "_id", i, HOut(__setattr__(Heap(items, cls_dirty), i, "_id", id), <<>>, NoRaise), <<>>)
LoadDetails == \E i \in 1..Len(items) : items[i].cls = "mail" /\ \E xml \in DetailResponses : ItemCall("item.load_details", "", i, load_details_from_xml(Heap(items, cls_dirty), i, xml), <<>>)

NextTracker ==
  \/ NewItem \/ ItemFromXml \/ GetItem
  \/ SetItemField \/ SetItemId \/ LoadDetails
  \/ Return

SpecTracker == Init /\ [][NextTracker]_vars

----------------------------------------------------------------------------
(* Two client sessions and one server: each session loads the stored event,
   assigns to its subject and calls update(), whose two round trips (the
   change-key refresh, the update request) interleave with the other session's *)

\* the server's answer to a request and its state afterwards: a get-item returns
\* the stored event with its current change key; an update-item is applied, and
\* the change key replaced, only when the request carries the current change
\* key, and is answered with the stale-change-key fault otherwise
server_send(srv, req, e) ==
  IF req.id # srv.id THEN [srv |-> srv, resp |-> Resp("ExchangeItemNotFoundException", <<>>)]
  ELSE IF req.op = "GetItem" THEN [srv |-> srv, resp |-> Resp("NoError", <<Item(srv.id, srv.ck, IF req.scope = "IdOnly" THEN {} ELSE {"subject"}, [BlankEvent EXCEPT !.subject = srv.subject])>>)]
  ELSE IF req.change_key # srv.ck THEN [srv |-> srv, resp |-> Resp("ExchangeStaleChangeKeyException", <<>>)]
  ELSE [srv |-> [srv EXCEPT !.ck = @ + 1, !.subject = IF "subject" \in req.attrs THEN e.subject ELSE @], resp |-> Resp("NoError", <<>>)]

\* the notification scope the sessions update with (the default)
SessionScope == "SendToAllAndSaveCopy"

\* event = Exchange2010CalendarEvent(service, id=...)
SessionLoad(s) ==
  /\ sess[s].pc = "start"
  /\ LET out == get_event(server.id, server_send(server, get_item(server.id, "AllProperties"), NoEntity).resp)
     IN sess' = [sess EXCEPT ![s] = [@ EXCEPT !.ent = out.ent, !.pc = "loaded", !.missed = FALSE]]
  /\ UNCHANGED <<entity, lastop, items, cls_dirty, server>>

\* event.subject = ...
SessionAssign(s) ==
  /\ sess[s].pc = "loaded"
  /\ server.ck < MaxVersion
  /\ sess' = [sess EXCEPT ![s] = [@ EXCEPT !.ent = set_field(@, "subject", s), !.pc = "dirty"]]
  /\ UNCHANGED <<entity, lastop, items, cls_dirty, server>>

\* event.update(), up to the response to its first request, the refresh
SessionRefresh(s) ==
  /\ sess[s].pc = "dirty"
  /\ Len(update(sess[s].ent, SessionScope, "absent", NoResp, NoResp).calls) = 1
  /\ LET req == update(sess[s].ent, SessionScope, "absent", NoResp, NoResp).calls[1]
     IN sess' = [sess EXCEPT ![s] = [@ EXCEPT !.r1 = server_send(server, req, sess[s].ent).resp, !.pc = "refreshed", !.raced = FALSE]]
  /\ UNCHANGED <<entity, lastop, items, cls_dirty, server>>

\* event.update(), from the response to the refresh to its return: the update
\* request reaches the server and the call ends
SessionWrite(s) ==
  /\ sess[s].pc = "refreshed"
  /\ Len(update(sess[s].ent, SessionScope, "absent", sess[s].r1, NoResp).calls) = 2
  /\ LET sent == update(sess[s].ent, SessionScope, "absent", sess[s].r1, NoResp)
         ans == server_send(server, sent.calls[2], sent.ent)
         out == update(sess[s].ent, SessionScope, "absent", sess[s].r1, ans.resp)
         applied == ans.srv # server
     IN /\ server' = ans.srv
        /\ sess' = [t \in Sessions |->
                     IF t = s
                     THEN [sess[t] EXCEPT !.ent = out.ent, !.pc = IF out.ent._dirty_attributes = {} THEN "loaded" ELSE "dirty", !.r1 = NoResp,
                                          !.missed = IF applied THEN FALSE ELSE @,
                                          !.last = [done |-> TRUE, result |-> out.raised, applied |-> applied, missed |-> sess[t].missed, raced |-> sess[t].raced]]
                     ELSE [sess[t] EXCEPT !.missed = @ \/ (applied /\ sess[t].pc # "start"), !.raced = @ \/ (applied /\ sess[t].pc = "refreshed")]]
  /\ UNCHANGED <<entity, lastop, items, cls_dirty>>

Load == \E s \in Sessions : SessionLoad(s)
Assign == \E s \in Sessions : SessionAssign(s)
Refresh == \E s \in Sessions : SessionRefresh(s)
Write == \E s \in Sessions : SessionWrite(s)

NextSessions == Load \/ Assign \/ Refresh \/ Write

SpecSessions == Init /\ [][NextSessions]_vars

----------------------------------------------------------------------------
(* Collections: Exchange2010CalendarEventList and Exchange2010FolderList *)

\* a response carries at most MaxListLen item (or folder) elements
MaxListLen == 2

\* sequences of at most MaxListLen elements of S
SeqsUpTo(S) == UNION {[1..n -> S] : n \in 0..MaxListLen}

\* the list objects as __init__ sets them up before the first request
BlankEventList == [kind |-> "event_list", count |-> 0, events |-> <<>>, event_ids |-> <<>>, details |-> FALSE]
BlankFolderList == [kind |-> "folder_list", count |-> 0, folders |-> <<>>, folder_ids |-> <<>>]

\* soap_request.get_calendar_items(format=u'AllProperties', calendar_id=...)
get_calendar_items(calendar_id) == Req("FindItem", None, None, {}, "AllProperties", calendar_id)

\* soap_request.get_item(exchange_id=self.event_ids, format=u'AllProperties')
get_items(ids) == Req("GetItem", ids, None, {}, "AllProperties", "")

\* soap_request.get_folder_items(folder_type, format=u'AllProperties')
get_folder_items(folder_type) == Req("FindFolder", None, None, {}, "AllProperties", folder_type)

\* Exchange2010CalendarEventList._add_event, for each item in document order:
\* an event is constructed from the item alone and appended
RECURSIVE _add_events(_, _)
_add_events(l, its) == IF its = <<>> THEN l ELSE _add_events([l EXCEPT !.events = Append(@, event_from_xml(Resp("NoError", <<Head(its)>>)).ent)], Tail(its))

\* Exchange2010CalendarEventList._parse_response_for_all_events
_parse_response_for_all_events(l, response) ==
  IF response.items # <<>> THEN _add_events([l EXCEPT !.count = Len(response.items)], response.items)
  ELSE l

\* load_all_details() that keeps the events it holds and adds the new ones
load_all_details_appends(l, r1) ==
  IF l.count > 0
  THEN IF ~Ok(r1) THEN Out(l, <<get_items(l.event_ids)>>, r1.fault)
       ELSE Out(_parse_response_for_all_events(l, r1), <<get_items(l.event_ids)>>, NoRaise)
  ELSE Out(l, <<>>, NoRaise)

\* load_all_details() that sends its request whatever the count is
load_all_details_always(l, r1) ==
  IF ~Ok(r1) THEN Out([l EXCEPT !.events = <<>>], <<get_items(l.event_ids)>>, r1.fault)
  ELSE Out(_parse_response_for_all_events([l EXCEPT !.events = <<>>], r1), <<get_items(l.event_ids)>>, NoRaise)

\* Exchange2010CalendarEventList.load_all_details
load_all_details(l, r1) ==
  IF l.count > 0
  THEN IF ~Ok(r1) THEN Out([l EXCEPT !.events = <<>>], <<get_items(l.event_ids)>>, r1.fault)
       ELSE Out(_parse_response_for_all_events([l EXCEPT !.events = <<>>], r1), <<get_items(l.event_ids)>>, NoRaise)
  ELSE Out(l, <<>>, NoRaise)

\* Exchange2010CalendarEventList.__init__; r1 answers the calendar query, r2
\* the request of load_all_details
EventList__init__(details, r1, r2) ==
  LET found == _parse_response_for_all_events([BlankEventList EXCEPT !.details = details], r1)
      l == [found EXCEPT !.event_ids = [i \in 1..Len(found.events) |-> found.events[i]._id]]
  IN IF ~Ok(r1) THEN Out(BlankEventList, <<get_calendar_items("calendar")>>, r1.fault)
     ELSE IF details THEN Out(load_all_details(l, r2).ent, <<get_calendar_items("calendar")>> \o load_all_details(l, r2).calls, load_all_details(l, r2).raised)
     ELSE Out(l, <<get_calendar_items("calendar")>>, NoRaise)

\* allowed_folder_types in Exchange2010FolderList.__init__
allowed_folder_types == <<"contacts", "calendar", "tasks", "all", "inbox">>

\* folder_xml_name in _parse_response_for_all_folders
folder_xml_name(folder_type) ==
  IF folder_type = "calendar" THEN "CalendarFolder"
  ELSE IF folder_type = "tasks" THEN "TasksFolder"
  ELSE IF folder_type = "contacts" THEN "ContactsFolder"
  ELSE "Folder"

\* Exchange2010FolderList._add_folder, for each folder element in document order
RECURSIVE _add_folders(_, _)
_add_folders(l, its) == IF its = <<>> THEN l ELSE _add_folders([l EXCEPT !.folders = Append(@, folder_from_xml(Resp("NoError", <<Head(its)>>)).ent)], Tail(its))

\* Exchange2010FolderList._parse_response_for_all_folders
_parse_response_for_all_folders(l, response, folder_type) ==
  LET folders == SelectSeq(response.items, LAMBDA it : it.val.folder_type = folder_xml_name(folder_type))
  IN IF folders # <<>> THEN _add_folders([l EXCEPT !.count = @ + Len(folders)], folders) ELSE l

\* for ft in ...: send get_folder_items(ft) and parse the response; rs[i]
\* answers the i-th request, a fault ends the loop
RECURSIVE for_ft_in(_, _, _)
for_ft_in(o, fts, rs) ==
  IF fts = <<>> THEN o
  ELSE IF ~Ok(Head(rs)) THEN Out(o.ent, Append(o.calls, get_folder_items(Head(fts))), Head(rs).fault)
  ELSE for_ft_in(Out(_parse_response_for_all_folders(o.ent, Head(rs), Head(fts)), Append(o.calls, get_folder_items(Head(fts))), NoRaise), Tail(fts), Tail(rs))

\* the folder types Exchange2010FolderList.__init__ queries for folder_type
queried(folder_type) == IF folder_type # "all" THEN <<folder_type>> ELSE SubSeq(allowed_folder_types, 1, Len(allowed_folder_types) - 1)

\* Exchange2010FolderList.__init__
FolderList__init__(folder_type, rs) ==
  IF \A i \in 1..Len(allowed_folder_types) : allowed_folder_types[i] # folder_type THEN Out(BlankFolderList, <<>>, "FailedExchangeException")
  ELSE LET o == for_ft_in(Out(BlankFolderList, <<>>, NoRaise), queried(folder_type), rs)
       IN IF o.raised # NoRaise THEN o
          ELSE Out([o.ent EXCEPT !.folder_ids = [i \in 1..Len(o.ent.folders) |-> o.ent.folders[i]._id]], o.calls, NoRaise)

----------------------------------------------------------------------------
(* A caller that builds a list and loads its details *)

\* the calendar items of a response to a calendar query or a get-item batch
ListItems == {Item(id, 1, {"subject"}, [BlankEvent EXCEPT !.subject = "a"]) : id \in {1, None}}
ListResponses == {Resp("ExchangeItemNotFoundException", <<>>)} \cup {Resp("NoError", its) : its \in SeqsUpTo(ListItems)}

\* the folder elements of a response to a folder query
FolderElements == {Item(1, 1, {"display_name"}, [BlankFolder EXCEPT !.folder_type = tag, !.display_name = "n"]) : tag \in {"Folder", "CalendarFolder"}}
FolderListResponses == {Resp("ExchangeItemNotFoundException", <<>>)} \cup {Resp("NoError", its) : its \in SeqsUpTo(FolderElements)}

\* the folder_type arguments
FolderTypeArgs == {"all", "calendar", "inbox", "mail"}

IsEventList == entity.kind = "event_list"

NewEventList == \E details \in BOOLEAN, r1 \in ListResponses, r2 \in ListResponses :
                  Construct("new_event_list", Arg("", IF details THEN "true" ELSE "false", "", "", None), EventList__init__(details, r1, r2), <<r1, r2>>)
NewFolderList == \E folder_type \in FolderTypeArgs : \E rs \in [1..Len(queried(folder_type)) -> FolderListResponses] :
                  Construct("new_folder_list", Arg("", "", folder_type, "", None), FolderList__init__(folder_type, rs), rs)
LoadAllDetails == IsEventList /\ Call1("load_all_details", NoArg, [r1 \in ListResponses \cup {NoResp} |-> load_all_details(entity, r1)], ListResponses)

NextLists == NewEventList \/ NewFolderList \/ LoadAllDetails \/ Return \/ Discard

SpecLists == Init /\ [][NextLists]_vars

----------------------------------------------------------------------------
(* Validation: events with every combination of recurrence fields are
   constructed from keyword values or from a response, then created or updated *)

\* the values of the recurrence fields and of the start date
RecurrenceKinds == {NoneS, "daily", "weekly", "monthly", "yearly", "hourly"}
RecurrenceIntervals == {NoneI, 0, 1, 99, 100, 999, 1000}
RecurrenceDays == {NoDays, <<>>, <<"Monday">>, <<"Monday", "Funday">>}
RecurrenceEndDates == {None, 1, 2}
StartDates == {None, 2}

\* the events those values make
RecurringEvents == {[BlankEvent EXCEPT !.subject = "a", !.start = s, !.recurrence = k, !.recurrence_interval = n, !.recurrence_days = d, !.recurrence_end_date = ed] :
                      s \in StartDates, k \in RecurrenceKinds, n \in RecurrenceIntervals, d \in RecurrenceDays, ed \in RecurrenceEndDates}

NewRecurringEvent == \E v \in RecurringEvents : Construct("new_event", NoArg, new_event("calendar", {k \in EventPublic : v[k] # BlankEvent[k]}, v), <<>>)
LoadRecurringEvent == \E v \in RecurringEvents : Construct("event_from_xml", NoArg, event_from_xml(Resp("NoError", <<Item(1, 1, {k \in EventPublic : v[k] # BlankEvent[k]}, v)>>)), <<>>)

NextValidate == NewRecurringEvent \/ LoadRecurringEvent \/ Create \/ Update \/ Return \/ Discard

SpecValidate == Init /\ [][NextValidate]_vars

----------------------------------------------------------------------------
(* The fault classifier, Exchange2010Service._check_for_exchange_fault: it
   reads the m:ResponseCode elements of a response in document order *)

\* the texts a status-code element may have; the last stands for every code
\* the classifier has no branch for
ResponseCodes == {"NoError", "ErrorChangeKeyRequiredForWriteOperations", "ErrorItemNotFound", "ErrorIrresolvableConflict", "ErrorInternalServerTransientError", "ErrorCalendarOccurrenceIndexIsOutOfRecurrenceRange", "ErrorAccessDenied"}

\* a response carries at most MaxCodes status-code elements
MaxCodes == 3

\* a response tree: its status codes in document order, and the rest of it
XmlTree(codes, payload) == [kind |-> "xml", codes |-> codes, payload |-> payload]

\* raise exc(...): the exception and the code text its message carries
Raise(exc, text) == [exc |-> exc, text |-> text]
\* nothing is raised
Pass == Raise(NoRaise, "")

\* the loop body with the out-of-range code treated as any unrecognised code
raise_for_out_of_range(code) ==
  IF code = "ErrorChangeKeyRequiredForWriteOperations" THEN Raise("ExchangeStaleChangeKeyException", code)
  ELSE IF code = "ErrorItemNotFound" THEN Raise("ExchangeItemNotFoundException", code)
  ELSE IF code = "ErrorIrresolvableConflict" THEN Raise("ExchangeIrresolvableConflictException", code)
  ELSE IF code = "ErrorInternalServerTransientError" THEN Raise("ExchangeInternalServerTransientErrorException", code)
  ELSE IF code # "NoError" THEN Raise("FailedExchangeException", code)
  ELSE Pass

\* the loop body with an irresolvable conflict reported as a stale change key
raise_for_conflict_as_stale(code) ==
  IF code = "ErrorChangeKeyRequiredForWriteOperations" THEN Raise("ExchangeStaleChangeKeyException", code)
  ELSE IF code = "ErrorItemNotFound" THEN Raise("ExchangeItemNotFoundException", code)
  ELSE IF code = "ErrorIrresolvableConflict" THEN Raise("ExchangeStaleChangeKeyException", code)
  ELSE IF code = "ErrorInternalServerTransientError" THEN Raise("ExchangeInternalServerTransientErrorException", code)
  ELSE IF code = "ErrorCalendarOccurrenceIndexIsOutOfRecurrenceRange" THEN Pass
  ELSE IF code # "NoError" THEN Raise("FailedExchangeException", code)
  ELSE Pass

\* the body of `for code in response_codes`: what one code makes it raise
raise_for(code) ==
  IF code = "ErrorChangeKeyRequiredForWriteOperations" THEN Raise("ExchangeStaleChangeKeyException", code)
  ELSE IF code = "ErrorItemNotFound" THEN Raise("ExchangeItemNotFoundException", code)
  ELSE IF code = "ErrorIrresolvableConflict" THEN Raise("ExchangeIrresolvableConflictException", code)
  ELSE IF code = "ErrorInternalServerTransientError" THEN Raise("ExchangeInternalServerTransientErrorException", code)
  ELSE IF code = "ErrorCalendarOccurrenceIndexIsOutOfRecurrenceRange" THEN Pass
  ELSE IF code # "NoError" THEN Raise("FailedExchangeException", code)
  ELSE Pass

\* the loop going on after a raise: the last code that raises decides
RECURSIVE for_code_in_to_the_end(_)
for_code_in_to_the_end(codes) == IF codes = <<>> THEN Pass ELSE IF for_code_in_to_the_end(Tail(codes)) # Pass THEN for_code_in_to_the_end(Tail(codes)) ELSE raise_for(Head(codes))

\* for code in response_codes: the first raise ends the loop
RECURSIVE for_code_in(_)
for_code_in(codes) == IF codes = <<>> THEN Pass ELSE IF raise_for(Head(codes)) # Pass THEN raise_for(Head(codes)) ELSE for_code_in(Tail(codes))

\* the classifier accepting a response without any status code
_check_for_exchange_fault_lenient(xml_tree) == for_code_in(xml_tree.codes)

\* Exchange2010Service._check_for_exchange_fault
_check_for_exchange_fault(xml_tree) ==
  IF xml_tree.codes = <<>> THEN Raise("FailedExchangeException", "")
  ELSE for_code_in(xml_tree.codes)

\* the responses the classifier is given
CodeSequences == UNION {[1..n -> ResponseCodes] : n \in 0..MaxCodes}
Payloads == {<<>>, <<Item(1, 1, {}, BlankEvent)>>}

\* the transport hands a response to the classifier; the code text of the
\* message raised is kept in lastop.arg.key
CheckForExchangeFault ==
  /\ Idle
  /\ \E codes \in CodeSequences, payload \in Payloads :
        lastop' = [op |-> "_check_for_exchange_fault", arg |-> Arg("", "", "", _check_for_exchange_fault(XmlTree(codes, payload)).text, None),
                   pre |-> XmlTree(codes, payload), resps |-> <<>>, calls |-> <<>>, raised |-> _check_for_exchange_fault(XmlTree(codes, payload)).exc]
  /\ UNCHANGED <<entity, items, cls_dirty, server, sess>>

NextClassifier == CheckForExchangeFault \/ Return

SpecClassifier == Init /\ [][NextClassifier]_vars

----------------------------------------------------------------------------
(* Exchange2010MailList: the mails of a folder, and their extended properties *)

\* soap_request.find_items(folder_id=folder_id, format=u'AllProperties')
find_items(folder_id) == Req("FindItem", None, None, {}, "AllProperties", folder_id)

\* soap_request.get_mail_items(self.items)
get_mail_items(its) == Req("GetItem", [i \in 1..Len(its) |-> its[i]._id], None, {}, "ExtendedProperties", "")

\* the list object; its items are the objects of the heap, in order
BlankMailList == [kind |-> "mail_list", mail_folder_id |-> "inbox"]

\* for mail_xml in mails: mail = Exchange2010MailItem(xml=mail_xml);
\* self.items.append(mail); an exception of the constructor ends the loop
RECURSIVE add_mails(_, _)
add_mails(o, mails) ==
  IF mails = <<>> \/ o.raised # NoRaise THEN o
  ELSE add_mails(HOut(Item__init__(o.heap, "mail", "xml", None, Resp("NoError", <<Head(mails)>>), {}, <<>>).heap, o.calls,
                      Item__init__(o.heap, "mail", "xml", None, Resp("NoError", <<Head(mails)>>), {}, <<>>).raised), Tail(mails))

\* Exchange2010MailList.__init__ (xml_result is None) with _parse_response_for_all_mails
MailList__init__(h, r1) ==
  IF ~Ok(r1) THEN HOut(h, <<find_items("inbox")>>, r1.fault)
  ELSE add_mails(HOut(h, <<find_items("inbox")>>, NoRaise), r1.items)

\* mail_dict: for m in self.items: mail_dict[m._id] = m (the last item of an id stays)
mail_dict(its) == [id \in {its[i]._id : i \in 1..Len(its)} |-> CHOOSE i \in 1..Len(its) : its[i]._id = id /\ \A j \in 1..Len(its) : its[j]._id = id => j <= i]

\* for mail_xml in mails: id = mail_xml.xpath(.../t:ItemId/@Id);
\* mail = mail_dict[id[0]]; mail.load_details_from_xml(mail_xml)
RECURSIVE for_mail_xml_in(_, _, _)
for_mail_xml_in(o, dict, mails) ==
  IF mails = <<>> \/ o.raised # NoRaise THEN o
  ELSE IF Head(mails).id = None THEN HOut(o.heap, o.calls, "IndexError")
  ELSE IF Head(mails).id \notin DOMAIN dict THEN HOut(o.heap, o.calls, "KeyError")
  ELSE for_mail_xml_in(HOut(load_details_from_xml(o.heap, dict[Head(mails).id], Resp("NoError", <<Head(mails)>>)).heap, o.calls, NoRaise), dict, Tail(mails))

\* the loop giving the j-th message of the response to the j-th item of the list
RECURSIVE for_mail_xml_by_position(_, _, _)
for_mail_xml_by_position(o, j, mails) ==
  IF mails = <<>> \/ j > Len(o.heap.items) THEN o
  ELSE for_mail_xml_by_position(HOut(load_details_from_xml(o.heap, j, Resp("NoError", <<Head(mails)>>)).heap, o.calls, NoRaise), j + 1, Tail(mails))

\* _parse_response_for_extended_properties that matches messages to items by position
_parse_response_for_extended_properties_by_position(h, xml) == for_mail_xml_by_position(HOut(h, <<>>, NoRaise), 1, xml.items)

\* Exchange2010MailList._parse_response_for_extended_properties
_parse_response_for_extended_properties(h, xml) == for_mail_xml_in(HOut(h, <<>>, NoRaise), mail_dict(h.items), xml.items)

\* Exchange2010MailList.load_extended_properties
load_extended_properties(h, r1) ==
  IF ~Ok(r1) THEN HOut(h, <<get_mail_items(h.items)>>, r1.fault)
  ELSE HOut(_parse_response_for_extended_properties(h, r1).heap, <<get_mail_items(h.items)>>, _parse_response_for_extended_properties(h, r1).raised)

\* the t:Message elements of a response to find_items: one has no change key
MailMessages == {Item(id, 1, found, [k \in PublicOf("mail") |-> IF k \in found THEN "x" ELSE NoneS]) : id \in Ids, found \in {{}, {"subject"}}}
                  \cup {Item(1, None, {}, [k \in PublicOf("mail") |-> NoneS])}
MailListResponses == {Resp("ExchangeItemNotFoundException", <<>>)} \cup {Resp("NoError", mails) : mails \in SeqsUpTo(MailMessages)}

\* the t:Message elements of a response to get_mail_items: with or without an
\* ItemId, with or without DateTimeSent
ExtendedMessages == {Item(id, 1, found, [k \in PublicOf("mail") |-> IF k \in found THEN "x" ELSE NoneS]) : id \in Ids \cup {None}, found \in {{}, {"datetime_sent"}}}
ExtendedResponses == {Resp("ExchangeItemNotFoundException", <<>>)} \cup {Resp("NoError", mails) : mails \in SeqsUpTo(ExtendedMessages)}

IsMailList == entity.kind = "mail_list"

\* service.mail().list_mails(): a constructor that raises yields no list
NewMailList ==
  /\ Idle /\ entity = NoEntity /\ items = <<>>
  /\ \E r1 \in MailListResponses :
       LET out == MailList__init__(Heap(items, cls_dirty), r1)
       IN /\ entity' = IF out.raised = NoRaise THEN BlankMailList ELSE NoEntity
          /\ items' = IF out.raised = NoRaise THEN out.heap.items ELSE items
          /\ cls_dirty' = out.heap.cls_dirty
          /\ lastop' = [op |-> "new_mail_list", arg |-> NoArg, pre |-> [kind |-> "items", items |-> items, cls_dirty |-> cls_dirty], resps |-> Answered(<<r1>>, out.calls), calls |-> out.calls, raised |-> out.raised]
  /\ UNCHANGED <<server, sess>>

\* an assignment to a public field of a mail of the list
SetMailField == IsMailList /\ SetItemField

LoadExtendedProperties ==
  /\ IsMailList
  /\ \E r1 \in ExtendedResponses : ItemCall("load_extended_properties", "", None, load_extended_properties(Heap(items, cls_dirty), r1), <<r1>>)

NextMailList == NewMailList \/ SetMailField \/ LoadExtendedProperties \/ Return

SpecMailList == Init /\ [][NextMailList]_vars

----------------------------------------------------------------------------
(* Queries on an event: get_master, get_occurrence, conflicting_events *)

\* the result of a query: the events it returns (get_master returns one
\* event, written as a sequence of one), the requests sent, the exception
QOut(result, calls, raised) == [result |-> result, calls |-> calls, raised |-> raised]

\* soap_request.get_master(exchange_id=self._id, format=u"AllProperties")
get_master_request(id) == Req("GetItem:RecurringMasterItemId", id, None, {}, "AllProperties", "")

\* soap_request.get_occurrence(exchange_id=self._id, instance_index=..., format=u"AllProperties")
get_occurrence_request(id, instance_index) == Req("GetItem:OccurrenceItemId", id, None, {}, "AllProperties", instance_index)

\* isinstance(i, int), for an index written as the caller wrote it
isinstance_int(i) == i \in {"1", "2"}

\* events that keeps an event for every item, with or without an id
RECURSIVE events_of_all_items(_)
events_of_all_items(its) == IF its = <<>> THEN <<>> ELSE <<event_from_xml(Resp("NoError", <<Head(its)>>)).ent>> \o events_of_all_items(Tail(its))

\* for item in items: event = Exchange2010CalendarEvent(xml=deepcopy(item));
\* if event.id: events.append(event)
RECURSIVE events_with_id(_)
events_with_id(its) ==
  IF its = <<>> THEN <<>>
  ELSE LET event == event_from_xml(Resp("NoError", <<Head(its)>>)).ent
       IN (IF Falsy(event._id) THEN <<>> ELSE <<event>>) \o events_with_id(Tail(its))

\* Exchange2010CalendarEvent.get_master
get_master(e, r1) ==
  IF e._type # "Occurrence" THEN QOut(<<>>, <<>>, "InvalidEventType")
  ELSE IF ~Ok(r1) THEN QOut(<<>>, <<get_master_request(e._id)>>, r1.fault)
  ELSE QOut(<<event_from_xml(r1).ent>>, <<get_master_request(e._id)>>, NoRaise)

\* get_occurrence() that looks at the event type before it looks at the indexes
get_occurrence_type_first(e, instance_index, r1) ==
  IF e._type # "RecurringMaster" THEN QOut(<<>>, <<>>, "InvalidEventType")
  ELSE IF \E i \in 1..Len(instance_index) : ~isinstance_int(instance_index[i]) THEN QOut(<<>>, <<>>, "TypeError")
  ELSE IF ~Ok(r1) THEN QOut(<<>>, <<get_occurrence_request(e._id, instance_index)>>, r1.fault)
  ELSE QOut(events_with_id(r1.items), <<get_occurrence_request(e._id, instance_index)>>, NoRaise)

\* Exchange2010CalendarEvent.get_occurrence
get_occurrence(e, instance_index, r1) ==
  IF \E i \in 1..Len(instance_index) : ~isinstance_int(instance_index[i]) THEN QOut(<<>>, <<>>, "TypeError")
  ELSE IF e._type # "RecurringMaster" THEN QOut(<<>>, <<>>, "InvalidEventType")
  ELSE IF ~Ok(r1) THEN QOut(<<>>, <<get_occurrence_request(e._id, instance_index)>>, r1.fault)
  ELSE QOut(events_with_id(r1.items), <<get_occurrence_request(e._id, instance_index)>>, NoRaise)

\* Exchange2010CalendarEvent.conflicting_events
conflicting_events(e, r1) ==
  IF e._conflicting_event_ids = <<>> THEN QOut(<<>>, <<>>, NoRaise)
  ELSE IF ~Ok(r1) THEN QOut(<<>>, <<get_items(e._conflicting_event_ids)>>, r1.fault)
  ELSE QOut(events_with_id(r1.items), <<get_items(e._conflicting_event_ids)>>, NoRaise)

\* the values of CalendarItemType, and None for an event that has none
EventTypes == {NoneS, "Single", "Occurrence", "RecurringMaster"}

\* the ids found under ConflictingMeetings
ConflictLists == {<<>>, <<2>>, <<2, 1>>}

\* the calendar items an event with a type and conflicts is loaded from
TypedItems == {Item(1, 1, {k \in {"_type", "_conflicting_event_ids"} : v[k] # BlankEvent[k]}, v) : v \in {[BlankEvent EXCEPT !._type = ty, !._conflicting_event_ids = c] : ty \in EventTypes, c \in ConflictLists}}

\* the Items elements of a response to a batch get-item: one per requested
\* item, empty (no id) for an occurrence out of range
BatchItems == {Item(id, 1, {"subject"}, [BlankEvent EXCEPT !.subject = "a"]) : id \in Ids \cup {None}}
BatchResponses == {Resp("ExchangeItemNotFoundException", <<>>)} \cup {Resp("NoError", its) : its \in SeqsUpTo(BatchItems)}

\* the instance_index arguments: "one" is a str
IndexArgs == SeqsUpTo({"1", "2", "one"})

\* a query on the event: the event is left as it is
Query(op, index, out, resps) ==
  /\ Idle
  /\ lastop' = [op |-> op, arg |-> NoArg, pre |-> entity, resps |-> Answered(resps, out.calls), calls |-> out.calls, raised |-> out.raised, result |-> out.result, index |-> index]
  /\ UNCHANGED <<entity, items, cls_dirty, server, sess>>

LoadTypedEvent == \E it \in TypedItems : Construct("event_from_xml", NoArg, event_from_xml(Resp("NoError", <<it>>)), <<>>)
GetMaster == IsEvent /\ \E r1 \in BatchResponses : Query("get_master", <<>>, get_master(entity, r1), <<r1>>)
GetOccurrence == IsEvent /\ \E instance_index \in IndexArgs, r1 \in BatchResponses : Query("get_occurrence", instance_index, get_occurrence(entity, instance_index, r1), <<r1>>)
ConflictingEvents == IsEvent /\ \E r1 \in BatchResponses : Query("conflicting_events", <<>>, conflicting_events(entity, r1), <<r1>>)

NextQueries == LoadTypedEvent \/ GetMaster \/ GetOccurrence \/ ConflictingEvents \/ Return \/ Discard

SpecQueries == Init /\ [][NextQueries]_vars

----------------------------------------------------------------------------
(* Properties of the lifecycle operations, stated on the call just made:
   lastop.pre is the entity before the call, entity the entity after it *)

\* every response the handler received was free of faults
TransportSucceeded == \A i \in 1..Len(lastop.resps) : Ok(lastop.resps[i])

\* the notification scope update() works with
EffectiveScope == IF lastop.arg.kw = "true" THEN "SendToChangedAndSaveCopy" ELSE lastop.arg.scope

OnEvent(op) == lastop.op = op /\ lastop.pre.kind = "event"
OnFolder(op) == lastop.op = op /\ lastop.pre.kind = "folder"

\* C1: update() on a persisted event with a non-empty dirty set, a valid scope,
\* passing validation and a transport that answers without a fault sends exactly
\* two requests, the change-key refresh (get-item, ids only) and then the update
\* request, and returns normally with an empty dirty set.
C1_UpdateRefreshesThenUpdates ==
  (OnEvent("update") /\ ~Falsy(lastop.pre._id) /\ lastop.pre._dirty_attributes # {} /\ EffectiveScope \in VALID_UPDATE_OPERATION_TYPES /\ validate(lastop.pre) = NoRaise /\ TransportSucceeded)
  => /\ Len(lastop.calls) = 2
     /\ lastop.calls[1] = get_item(lastop.pre._id, "IdOnly")
     /\ lastop.calls[2].op = "UpdateItem"
     /\ lastop.calls[2].attrs = lastop.pre._dirty_attributes
     /\ lastop.raised = NoRaise
     /\ entity._dirty_attributes = {}

\* an update() of a dirty event went through both round trips
C1_Witness == OnEvent("update") /\ lastop.pre._dirty_attributes # {} /\ lastop.raised = NoRaise /\ Len(lastop.calls) = 2 /\ entity._dirty_attributes = {}

\* C2: update() on a persisted event with an empty dirty set sends no request
\* and leaves the id, the change key, the dirty set and every field as they were.
C2_UpdateCleanIsNoOp ==
  (OnEvent("update") /\ ~Falsy(lastop.pre._id) /\ lastop.pre._dirty_attributes = {})
  => lastop.calls = <<>> /\ entity = lastop.pre

\* an update() of a persisted, clean event returned normally
C2_Witness == OnEvent("update") /\ ~Falsy(lastop.pre._id) /\ lastop.pre._dirty_attributes = {} /\ lastop.raised = NoRaise /\ EffectiveScope \in VALID_UPDATE_OPERATION_TYPES

\* C3 as stated: when another session's write was applied by the server after
\* this session loaded the event, this session's later update() of a dirty
\* field ends in the stale-change-key failure and its write is not applied
\* (no lost update in any interleaving).
C3_NoLostUpdate ==
  \A s \in Sessions : (sess[s].last.done /\ sess[s].last.missed)
     => sess[s].last.result = "ExchangeStaleChangeKeyException" /\ ~sess[s].last.applied

\* C3, amended: update() of a dirty field ends in the stale-change-key failure,
\* its write not applied, exactly when another session's write was applied
\* between this update()'s refresh and its update request; otherwise it
\* returns normally and its write is applied, also over a write that another
\* session made after this session loaded the event.
C3_StaleOnlyBetweenRefreshAndWrite ==
  \A s \in Sessions : sess[s].last.done
     => IF sess[s].last.raced
        THEN sess[s].last.result = "ExchangeStaleChangeKeyException" /\ ~sess[s].last.applied
        ELSE sess[s].last.result = NoRaise /\ sess[s].last.applied

\* both cases happened: one session's update() was rejected as stale, and the
\* other's overwrote a write made since it loaded the event
C3_Witness ==
  \E s, t \in Sessions :
     /\ sess[s].last.done /\ sess[s].last.raced /\ sess[s].last.result = "ExchangeStaleChangeKeyException"
     /\ sess[t].last.done /\ sess[t].last.missed /\ ~sess[t].last.raced /\ sess[t].last.applied

\* the newest object of the items, the one a constructor just made
Newest == Len(items)

\* C4: the dirty set of an entity (event, folder, contact, mail, task) is empty
\* right after its construction from keyword values, from an id or from a
\* response fragment, whatever was done before on other entities of its type.
C4_CleanAfterConstruction ==
  /\ (lastop.op \in {"item.new", "item.from_xml", "item.get"} /\ lastop.raised = NoRaise)
       => dirty_of(Heap(items, cls_dirty), Newest) = {}
  /\ (lastop.op \in {"new_event", "get_event", "event_from_xml", "new_folder", "get_folder", "folder_from_xml"} /\ lastop.raised = NoRaise)
       => entity._dirty_attributes = {}

\* C5: after construction, an assignment to a public field of a contact, mail
\* or task item makes the item's dirty set what it was plus that field's name,
\* also when the name was in the set already and the value is the one held.
C5_AssignmentMarksField ==
  (lastop.op = "item.setattr" /\ ~startswith_underscore(lastop.arg.key))
  => dirty_of(Heap(items, cls_dirty), lastop.arg.id) = dirty_of(Heap(lastop.pre.items, lastop.pre.cls_dirty), lastop.arg.id) \cup {lastop.arg.key}

\* a field whose name was in the dirty set was assigned the value it held
C5_Witness ==
  /\ lastop.op = "item.setattr" /\ ~startswith_underscore(lastop.arg.key)
  /\ lastop.arg.key \in dirty_of(Heap(lastop.pre.items, lastop.pre.cls_dirty), lastop.arg.id)
  /\ items[lastop.arg.id].vals[lastop.arg.key] = lastop.pre.items[lastop.arg.id].vals[lastop.arg.key]
  /\ Cardinality(dirty_of(Heap(items, cls_dirty), lastop.arg.id)) = 1

\* C6: cancel() and move_to() of an event, delete() and move_to() of a folder,
\* called while the id is None, raise TypeError, send no request and leave the
\* entity unchanged.
C6_NoIdFails ==
  (lastop.op \in {"cancel", "delete", "move_to"} /\ Falsy(lastop.pre._id))
  => lastop.raised = "TypeError" /\ lastop.calls = <<>> /\ entity = lastop.pre

\* delete() was called on a folder that was never created
C6_Witness == OnFolder("delete") /\ Falsy(lastop.pre._id) /\ lastop.raised = "TypeError"

\* C7: create() on an entity whose id is already set fails and sends no
\* new-item request.
C7_CreateTwiceFails ==
  (lastop.op = "create" /\ ~Falsy(lastop.pre._id))
  => lastop.raised # NoRaise /\ lastop.calls = <<>>

\* C8: the dirty set is empty right after a successful create().
C8_CreateLeavesClean ==
  (lastop.op = "create" /\ lastop.raised = NoRaise)
  => entity._dirty_attributes = {}

\* C9: after a successful cancel() of an event or delete() of a folder the id
\* and the change key are None, and a further cancel() / delete() raises
\* TypeError without sending a request.
C9_DeletedHasNoId ==
  ((OnEvent("cancel") \/ OnFolder("delete")) /\ lastop.raised = NoRaise)
  => /\ Falsy(entity._id) /\ Falsy(entity._change_key)
     /\ (IF entity.kind = "event" THEN cancel(entity, NoResp, NoResp) ELSE Folder_delete(entity, NoResp)) = Out(entity, <<>>, "TypeError")

\* the requests that change the server's state of an existing entity
MutatingRequests == {"UpdateItem", "DeleteItem", "MoveItem", "DeleteFolder", "MoveFolder"}
\* the operations that send them
MutatingOperations == {"update", "cancel", "delete", "move_to", "resend_invitations"}

FieldsUnchanged == \A k \in (IF lastop.pre.kind = "event" THEN EventPublic ELSE FolderPublic) : entity[k] = lastop.pre[k]

\* C11: resend_invitations() on an event with a non-empty dirty set raises a
\* caller-input failure (ValueError; TypeError when the event has no id), sends
\* no request and leaves the dirty set, the id and the change key as they were.
C11_ResendDirtyFails ==
  (OnEvent("resend_invitations") /\ lastop.pre._dirty_attributes # {})
  => /\ lastop.raised = (IF Falsy(lastop.pre._id) THEN "TypeError" ELSE "ValueError")
     /\ lastop.calls = <<>>
     /\ entity._dirty_attributes = lastop.pre._dirty_attributes
     /\ entity._id = lastop.pre._id /\ entity._change_key = lastop.pre._change_key

\* resend_invitations() was refused on a persisted event with unsaved changes
C11_Witness == OnEvent("resend_invitations") /\ lastop.pre._dirty_attributes # {} /\ ~Falsy(lastop.pre._id) /\ lastop.raised = "ValueError"

\* C12: resend_invitations() on a persisted event with an empty dirty set sends
\* the change-key refresh first and, once the refresh has completed, one update
\* request with no changed field and the scope SendOnlyToAll; afterwards the
\* dirty set is still empty and no domain field has changed.
C12_ResendSendsEmptyUpdate ==
  (OnEvent("resend_invitations") /\ ~Falsy(lastop.pre._id) /\ lastop.pre._dirty_attributes = {})
  => /\ Len(lastop.calls) >= 1 /\ lastop.calls[1] = get_item(lastop.pre._id, "IdOnly")
     /\ Ok(lastop.resps[1]) => /\ Len(lastop.calls) = 2
                                /\ lastop.calls[2].op = "UpdateItem" /\ lastop.calls[2].attrs = {} /\ lastop.calls[2].scope = "SendOnlyToAll"
                                /\ lastop.calls[2].change_key = entity._change_key
     /\ ~Ok(lastop.resps[1]) => Len(lastop.calls) = 1
     /\ entity._dirty_attributes = {}
     /\ FieldsUnchanged

\* resend_invitations() went through both round trips
C12_Witness == OnEvent("resend_invitations") /\ Len(lastop.calls) = 2 /\ lastop.raised = NoRaise /\ lastop.calls[2].scope = "SendOnlyToAll"

\* the response to the last request of the call
LastResponse == lastop.resps[Len(lastop.resps)]

\* the container reference of an entity
container(e) == IF e.kind = "event" THEN e.calendar_id ELSE e.parent_id

\* C13: after a successful move_to(new_container) on an event or a folder the
\* id and the change key are the ones the move response names and the container
\* reference is new_container.
C13_MoveTakesResponseIds ==
  (lastop.op = "move_to" /\ lastop.raised = NoRaise)
  => /\ entity._id = _parse_id_and_change_key_from_response(LastResponse)[1]
     /\ entity._change_key = _parse_id_and_change_key_from_response(LastResponse)[2]
     /\ container(entity) = lastop.arg.folder_id

C15_GetEventTakesChangeKey ==
  (lastop.op = "get_event" /\ lastop.raised = NoRaise)
  => /\ lastop.calls = <<get_item(lastop.arg.id, "AllProperties")>>
     /\ ~Falsy(entity._id)
     /\ id_elements(LastResponse) # <<>> => entity._change_key = _parse_id_and_change_key_from_response(LastResponse)[2]
     /\ entity._dirty_attributes = {}

\* the classifier was applied to the response lastop.pre
Classified == lastop.op = "_check_for_exchange_fault"

\* C16: for a response without any status-code element the classifier raises
\* FailedExchangeException, whatever else the response contains.
C16_NoStatusCodeFails ==
  (Classified /\ lastop.pre.codes = <<>>) => lastop.raised = "FailedExchangeException"

\* a response with a payload and no status code was rejected
C16_Witness == Classified /\ lastop.pre.codes = <<>> /\ lastop.pre.payload # <<>> /\ lastop.raised = "FailedExchangeException"

\* C17: for a response with at least one status code, all of them NoError or
\* ErrorCalendarOccurrenceIndexIsOutOfRecurrenceRange, the classifier raises
\* nothing, wherever the out-of-range code stands.
C17_OutOfRangeIgnored ==
  (Classified /\ lastop.pre.codes # <<>>
     /\ \A i \in 1..Len(lastop.pre.codes) : lastop.pre.codes[i] \in {"NoError", "ErrorCalendarOccurrenceIndexIsOutOfRecurrenceRange"})
  => lastop.raised = NoRaise

\* the out-of-range code stood first, before a NoError, and nothing was raised
C17_Witness ==
  /\ Classified /\ Len(lastop.pre.codes) >= 2 /\ lastop.raised = NoRaise
  /\ lastop.pre.codes[1] = "ErrorCalendarOccurrenceIndexIsOutOfRecurrenceRange" /\ lastop.pre.codes[2] = "NoError"

\* C18: for a response with one status code the outcome is: stale change key,
\* item not found, irresolvable conflict, transient error for the four codes
\* of those names; nothing for NoError (and for the out-of-range code); for
\* every other code FailedExchangeException with the code text in its message.
C18_SingleCodeMapping ==
  (Classified /\ Len(lastop.pre.codes) = 1)
  => LET code == lastop.pre.codes[1]
     IN /\ code = "ErrorChangeKeyRequiredForWriteOperations" => lastop.raised = "ExchangeStaleChangeKeyException"
        /\ code = "ErrorItemNotFound" => lastop.raised = "ExchangeItemNotFoundException"
        /\ code = "ErrorIrresolvableConflict" => lastop.raised = "ExchangeIrresolvableConflictException"
        /\ code = "ErrorInternalServerTransientError" => lastop.raised = "ExchangeInternalServerTransientErrorException"
        /\ code \in {"NoError", "ErrorCalendarOccurrenceIndexIsOutOfRecurrenceRange"} => lastop.raised = NoRaise
        /\ code = "ErrorAccessDenied" => lastop.raised = "FailedExchangeException" /\ lastop.arg.key = code

\* a single unrecognised code was reported as the generic failure
C18_Witness == Classified /\ lastop.pre.codes = <<"ErrorAccessDenied">> /\ lastop.raised = "FailedExchangeException" /\ lastop.arg.key = "ErrorAccessDenied"

\* the number of folder elements the i-th query of the call found: those of
\* the element name that belongs to the folder type asked for
ResultCount(i) == Len(SelectSeq(lastop.resps[i].items, LAMBDA it : it.val.folder_type = folder_xml_name(lastop.calls[i].target)))

\* the sum of the result counts of the first n queries of the call
RECURSIVE SumOfResultCounts(_)
SumOfResultCounts(n) == IF n = 0 THEN 0 ELSE SumOfResultCounts(n - 1) + ResultCount(n)

\* the concrete folder kinds
ConcreteKinds == {"contacts", "calendar", "tasks", "inbox"}

\* C19: a folder list built with folder_type "all" sends exactly one query for
\* each of contacts, calendar, tasks and inbox, none for any other kind, and
\* its count is the sum of the result counts of those queries.
C19_AllQueriesConcreteKinds ==
  (lastop.op = "new_folder_list" /\ lastop.arg.folder_id = "all" /\ lastop.raised = NoRaise)
  => /\ \A k \in ConcreteKinds : Cardinality({i \in 1..Len(lastop.calls) : lastop.calls[i] = get_folder_items(k)}) = 1
     /\ \A i \in 1..Len(lastop.calls) : lastop.calls[i].target \in ConcreteKinds
     /\ entity.count = SumOfResultCounts(Len(lastop.calls))

\* the response load_all_details() received, if it sent its request
DetailsResponse == IF lastop.resps = <<>> THEN NoResp ELSE lastop.resps[1]

\* C20: load_all_details() is idempotent: called again with the server
\* answering the same way it leaves the list as the first call left it and
\* ends the same way; the events are replaced, never appended to, so they are
\* never more than the items of the latest response.
C20_LoadAllDetailsIdempotent ==
  (lastop.op = "load_all_details")
  => /\ load_all_details(entity, DetailsResponse).ent = entity
     /\ load_all_details(entity, DetailsResponse).raised = lastop.raised
     /\ Len(entity.events) <= Len(DetailsResponse.items)

\* load_all_details() replaced the events of a non-empty list by those of a
\* response that carries as many items as the list had events, or more
C20_Witness ==
  /\ lastop.op = "load_all_details" /\ Len(lastop.calls) = 1 /\ lastop.raised = NoRaise
  /\ Len(lastop.pre.events) >= 1 /\ Len(entity.events) >= Len(lastop.pre.events)

\* C21: load_all_details() sends exactly one request, the get-item batch over
\* the recorded ids, when the first query found items, and sends nothing and
\* changes nothing when it found none; a list built with details=True sends
\* two requests when its query finds items and one when it finds none.
C21_OneRoundTripWhenNonEmpty ==
  /\ (lastop.op = "load_all_details")
       => IF lastop.pre.event_ids # <<>>
          THEN lastop.calls = <<get_items(lastop.pre.event_ids)>>
          ELSE lastop.calls = <<>> /\ entity = lastop.pre /\ lastop.raised = NoRaise
  /\ (lastop.op = "new_event_list" /\ lastop.arg.kw = "true" /\ Ok(lastop.resps[1]))
       => Len(lastop.calls) = (IF lastop.resps[1].items # <<>> THEN 2 ELSE 1)

\* a list was built with details=True from a query that found items
C21_Witness ==
  /\ lastop.op = "new_event_list" /\ lastop.arg.kw = "true" /\ lastop.raised = NoRaise
  /\ Len(lastop.calls) = 2 /\ lastop.calls[2] = get_items(entity.event_ids) /\ entity.event_ids # <<>>

\* C22: in an event list and in a folder list the id list is parallel to the
\* entities at every point after construction: they have the same length and
\* the i-th id is the id of the i-th entity.
C22_IdsParallelToEntities ==
  /\ entity.kind = "event_list"
       => Len(entity.event_ids) = Len(entity.events) /\ \A i \in 1..Len(entity.events) : entity.event_ids[i] = entity.events[i]._id
  /\ entity.kind = "folder_list"
       => Len(entity.folder_ids) = Len(entity.folders) /\ \A i \in 1..Len(entity.folders) : entity.folder_ids[i] = entity.folders[i]._id

\* create(), or update() with its own preconditions met (an id, a valid scope),
\* was called on an event: the call got as far as validate()
ReachedValidation == OnEvent("create") \/ (OnEvent("update") /\ ~Falsy(lastop.pre._id) /\ EffectiveScope \in VALID_UPDATE_OPERATION_TYPES)

\* the call failed in validation: an exception of validate(), no request, no change
ValidationFailed == lastop.raised \in {"ValueError", "AttributeError"} /\ lastop.calls = <<>> /\ entity = lastop.pre

\* the recurrence checks let the event through: the call ends as the base
\* validation and the transport make it end
ValidationPassed ==
  IF base_validate(lastop.pre) # NoRaise THEN lastop.raised = base_validate(lastop.pre) /\ lastop.calls = <<>>
  ELSE lastop.raised \in {NoRaise} \cup TransportFaults

\* the repeat interval is an integer within the bounds of the recurrence kind
IntervalInRange(e) ==
  CASE e.recurrence = "daily" -> e.recurrence_interval \in 1..999
    [] e.recurrence \in {"weekly", "monthly"} -> e.recurrence_interval \in 1..99
    [] OTHER -> TRUE

\* an end date is present and not before the start date
EndDateOk(e) == e.recurrence_end_date # None /\ e.start # None /\ e.recurrence_end_date >= e.start

\* the weekday tokens are a non-empty set drawn from the seven weekday names
DaysOk(e) == e.recurrence_days \notin {NoDays, <<>>} /\ \A i \in 1..Len(e.recurrence_days) : e.recurrence_days[i] \in WEEKLY_DAYS

RecurrenceKindOk(e) == e.recurrence \in {"daily", "weekly", "monthly", "yearly"}

\* C23: create() and update() on an event with a daily recurrence and an
\* interval outside 1..999, or a weekly or monthly recurrence and an interval
\* outside 1..99, fail in validation, with ValueError, before any request; an
\* interval inside the range passes the check and yearly needs no interval.
C23_IntervalRange ==
  (ReachedValidation /\ RecurrenceKindOk(lastop.pre))
  => /\ ~IntervalInRange(lastop.pre) => ValidationFailed /\ (EndDateOk(lastop.pre) => lastop.raised = "ValueError")
     /\ (IntervalInRange(lastop.pre) /\ EndDateOk(lastop.pre) /\ (lastop.pre.recurrence = "weekly" => DaysOk(lastop.pre))) => ValidationPassed

\* create() of a weekly event with interval 0, otherwise valid, was refused
C23_Witness ==
  /\ OnEvent("create") /\ lastop.pre.recurrence = "weekly" /\ lastop.pre.recurrence_interval = 0
  /\ EndDateOk(lastop.pre) /\ DaysOk(lastop.pre) /\ lastop.raised = "ValueError" /\ lastop.calls = <<>>

\* C24: with a recurrence set, validation fails before any request unless the
\* kind is daily, weekly, monthly or yearly, an end date is present and not
\* before the start date (equal passes) and, for weekly, the weekday tokens are
\* a non-empty set of weekday names; with no recurrence set no such check applies.
C24_RecurrenceChecks ==
  ReachedValidation
  => /\ (lastop.pre.recurrence # NoneS /\ ~(RecurrenceKindOk(lastop.pre) /\ EndDateOk(lastop.pre) /\ (lastop.pre.recurrence = "weekly" => DaysOk(lastop.pre))))
          => ValidationFailed
     /\ (RecurrenceKindOk(lastop.pre) /\ EndDateOk(lastop.pre) /\ (lastop.pre.recurrence = "weekly" => DaysOk(lastop.pre)) /\ IntervalInRange(lastop.pre))
          => ValidationPassed
     /\ lastop.pre.recurrence = NoneS => ValidationPassed

\* create() of a weekly event that ends on the day it starts sent its request
C24_Witness ==
  /\ OnEvent("create") /\ lastop.pre.recurrence = "weekly" /\ lastop.pre.recurrence_end_date = lastop.pre.start
  /\ DaysOk(lastop.pre) /\ Len(lastop.calls) = 1 /\ lastop.raised = NoRaise

\* the caller-input failure of update(): no request, nothing changed
CallerInputFailure == lastop.raised \in {"TypeError", "ValueError"} /\ lastop.calls = <<>> /\ entity = lastop.pre

\* C25 as stated: update() called with a notification scope outside the five
\* valid values fails with a caller-input failure before any request and leaves
\* the dirty set, the id and the change key unchanged.
C25_InvalidScopeFails ==
  (OnEvent("update") /\ lastop.arg.scope \notin VALID_UPDATE_OPERATION_TYPES) => CallerInputFailure

\* C25, amended: the scope that is checked is the one the call uses, which is
\* SendToChangedAndSaveCopy whenever the deprecated keyword
\* send_only_to_changed_attendees is true, whatever scope was passed; a scope in
\* use outside the five values fails before any request with nothing changed,
\* and every update request carries one of the five values.
C25_InvalidScopeInUseFails ==
  OnEvent("update")
  => /\ EffectiveScope \notin VALID_UPDATE_OPERATION_TYPES
          => CallerInputFailure /\ (~Falsy(lastop.pre._id) => lastop.raised = "ValueError")
     /\ \A i \in 1..Len(lastop.calls) : lastop.calls[i].op = "UpdateItem"
          => lastop.calls[i].scope = EffectiveScope /\ EffectiveScope \in VALID_UPDATE_OPERATION_TYPES

\* update() of a persisted event with a dirty field and an unknown scope was refused
C25_Witness ==
  /\ OnEvent("update") /\ lastop.arg.scope = "SendToSome" /\ lastop.arg.kw = "absent"
  /\ ~Falsy(lastop.pre._id) /\ lastop.pre._dirty_attributes # {}
  /\ lastop.raised = "ValueError" /\ lastop.calls = <<>> /\ entity = lastop.pre

\* the number of requests of a kind among the requests of the last call
Sent(op) == Cardinality({i \in 1..Len(lastop.calls) : lastop.calls[i].op = op})

\* C26: whatever the server answers, one call to update() ends after at most
\* one refresh request and at most one write request, the refresh first; a
\* write refused for a stale change key ends the call with that failure.
C26_UpdateIsBounded ==
  OnEvent("update")
  => /\ Sent("GetItem") <= 1 /\ Sent("UpdateItem") <= 1 /\ Len(lastop.calls) = Sent("GetItem") + Sent("UpdateItem")
     /\ Sent("UpdateItem") = 1 => Len(lastop.calls) = 2 /\ lastop.calls[1].op = "GetItem"
     /\ (Len(lastop.resps) = 2 /\ ~Ok(lastop.resps[2])) => lastop.raised = lastop.resps[2].fault /\ Len(lastop.calls) = 2

\* an update() whose write was refused for a stale change key ended after two requests
C26_Witness ==
  /\ OnEvent("update") /\ Len(lastop.calls) = 2 /\ lastop.calls[2].op = "UpdateItem"
  /\ lastop.resps[2].fault = "ExchangeStaleChangeKeyException" /\ lastop.raised = "ExchangeStaleChangeKeyException"

\* C27: when the transport raises during a round trip of create(), update(),
\* cancel(), delete(), move_to(), resend_invitations() or refresh_change_key(),
\* the call raises that failure and the failed request is the last one it sent.
C27_TransportFailurePropagates ==
  (lastop.op \in {"create", "update", "cancel", "delete", "move_to", "resend_invitations", "refresh_change_key"})
  => \A i \in 1..Len(lastop.resps) : ~Ok(lastop.resps[i])
        => lastop.raised = lastop.resps[i].fault /\ Len(lastop.calls) = i

\* a cancel() whose refresh failed raised the failure and sent no delete request
C27_Witness ==
  /\ OnEvent("cancel") /\ Len(lastop.calls) = 1 /\ lastop.calls[1].op = "GetItem"
  /\ ~Ok(lastop.resps[1]) /\ lastop.raised = lastop.resps[1].fault

\* the objects and class-level sets before and after the last call
Before == Heap(lastop.pre.items, lastop.pre.cls_dirty)
After == Heap(items, cls_dirty)

\* the last call left every dirty set that existed before it as it was
DirtySetsUnchanged == cls_dirty = lastop.pre.cls_dirty /\ \A j \in 1..Len(lastop.pre.items) : dirty_of(After, j) = dirty_of(Before, j)

\* C28: a bulk load (in a constructor, in load_details_from_xml) applies every
\* given value, adds no name to any dirty set, and leaves tracking enabled,
\* whether tracking was on (a loaded item) or off (a new object) before.
C28_BulkLoadAddsNothing ==
  /\ (lastop.op = "item.load_details")
       => /\ DirtySetsUnchanged /\ track_of(items[lastop.arg.id])
          /\ \A k \in {"subject"} : items[lastop.arg.id].vals[k] = lastop.pre.items[lastop.arg.id].vals[k]
  /\ (lastop.op \in {"item.new", "item.from_xml", "item.get"} /\ lastop.raised = NoRaise)
       => /\ DirtySetsUnchanged /\ track_of(items[Newest])
          /\ dirty_of(After, Newest) = lastop.pre.cls_dirty[items[Newest].cls]
  /\ (lastop.op = "item.get" /\ lastop.raised = NoRaise)
       => \A k \in lastop.resps[1].items[1].has : items[Newest].vals[k] = lastop.resps[1].items[1].val[k]

\* the details of a mail with a dirty field were loaded: the sent date was
\* applied and tracking, on before, is on
C28_Witness ==
  /\ lastop.op = "item.load_details" /\ dirty_of(Before, lastop.arg.id) # {}
  /\ track_of(lastop.pre.items[lastop.arg.id]) /\ track_of(items[lastop.arg.id])
  /\ lastop.pre.items[lastop.arg.id].vals["datetime_sent"] = NoneS /\ items[lastop.arg.id].vals["datetime_sent"] = "x"

\* C29: an assignment to a public field of one contact, mail or task item
\* changes the dirty set of no other item, and an item constructed later
\* starts with none of the names recorded for the items before it.
C29_DirtySetsNotShared ==
  /\ (lastop.op = "item.setattr")
       => \A j \in 1..Len(items) : j # lastop.arg.id => dirty_of(After, j) = dirty_of(Before, j)
  /\ (lastop.op \in {"item.new", "item.from_xml", "item.get"} /\ lastop.raised = NoRaise)
       => \A j \in 1..Len(lastop.pre.items) : dirty_of(After, Newest) \cap dirty_of(Before, j) = {}

\* C30: an assignment to a name with a leading underscore adds nothing to any
\* dirty set, the assignments a constructor makes while tracking is off add
\* nothing either, and every element of a dirty set is a public field name.
C30_OnlyPublicNamesRecorded ==
  /\ (lastop.op = "item.setattr" /\ startswith_underscore(lastop.arg.key)) => DirtySetsUnchanged
  /\ (lastop.op \in {"item.new", "item.from_xml", "item.get"}) => cls_dirty = lastop.pre.cls_dirty
  /\ \A i \in 1..Len(items) : \A k \in dirty_of(After, i) : ~startswith_underscore(k) /\ k \in PublicOf(items[i].cls)

\* the id of an item with a dirty field was assigned
C30_Witness ==
  /\ lastop.op = "item.setattr" /\ lastop.arg.key = "_id"
  /\ dirty_of(Before, lastop.arg.id) # {} /\ items[lastop.arg.id]._id # lastop.pre.items[lastop.arg.id]._id
  /\ dirty_of(After, lastop.arg.id) = dirty_of(Before, lastop.arg.id)

\* C31: get_master() on an event whose type is not Occurrence and
\* get_occurrence() on an event whose type is not RecurringMaster raise
\* InvalidEventType and send nothing; get_occurrence() with an index that is
\* not an int raises TypeError and sends nothing, whatever the event type is.
C31_QueryPreconditions ==
  /\ (lastop.op = "get_master")
       => IF lastop.pre._type # "Occurrence" THEN lastop.raised = "InvalidEventType" /\ lastop.calls = <<>>
          ELSE Len(lastop.calls) = 1
  /\ (lastop.op = "get_occurrence")
       => IF \E i \in 1..Len(lastop.index) : lastop.index[i] \notin {"1", "2"} THEN lastop.raised = "TypeError" /\ lastop.calls = <<>>
          ELSE IF lastop.pre._type # "RecurringMaster" THEN lastop.raised = "InvalidEventType" /\ lastop.calls = <<>>
          ELSE Len(lastop.calls) = 1
  /\ (lastop.op \in {"get_master", "get_occurrence"}) => entity = lastop.pre

\* get_occurrence() on an event that is not a recurring master, with an index
\* that is not an int, raised TypeError
C31_Witness ==
  /\ lastop.op = "get_occurrence" /\ lastop.pre._type = "Occurrence"
  /\ Len(lastop.index) = 2 /\ lastop.index[2] = "one" /\ lastop.raised = "TypeError" /\ lastop.calls = <<>>

\* the Items elements of the last response that carry an item id
ItemsWithId == SelectSeq(lastop.resps[1].items, LAMBDA it : it.id # None)

\* C32: get_occurrence() and conflicting_events() return, in response order,
\* one event per response item that carries an id, so every returned event has
\* an id; conflicting_events() on an event without conflicting ids returns an
\* empty list and sends nothing.
C32_OneEventPerItemWithId ==
  /\ (lastop.op \in {"get_occurrence", "conflicting_events"} /\ lastop.raised = NoRaise /\ Len(lastop.calls) = 1)
       => /\ Len(lastop.result) = Len(ItemsWithId)
          /\ \A i \in 1..Len(lastop.result) : lastop.result[i]._id = ItemsWithId[i].id /\ lastop.result[i]._id # None /\ lastop.result[i].subject = ItemsWithId[i].val.subject
  /\ (lastop.op = "conflicting_events" /\ lastop.pre._conflicting_event_ids = <<>>)
       => lastop.result = <<>> /\ lastop.calls = <<>> /\ lastop.raised = NoRaise

\* get_occurrence() skipped an item without an id and returned the one after it
C32_Witness ==
  /\ lastop.op = "get_occurrence" /\ lastop.raised = NoRaise /\ Len(lastop.calls) = 1
  /\ Len(lastop.resps[1].items) = 2 /\ lastop.resps[1].items[1].id = None
  /\ Len(lastop.result) = 1 /\ lastop.result[1]._id = lastop.resps[1].items[2].id

\* the positions of the codes that are neither NoError nor the out-of-range code
FatalPositions == {i \in 1..Len(lastop.pre.codes) : lastop.pre.codes[i] \notin {"NoError", "ErrorCalendarOccurrenceIndexIsOutOfRecurrenceRange"}}

\* the failure kind of a code
FailureKind(code) ==
  CASE code = "ErrorChangeKeyRequiredForWriteOperations" -> "ExchangeStaleChangeKeyException"
    [] code = "ErrorItemNotFound" -> "ExchangeItemNotFoundException"
    [] code = "ErrorIrresolvableConflict" -> "ExchangeIrresolvableConflictException"
    [] code = "ErrorInternalServerTransientError" -> "ExchangeInternalServerTransientErrorException"
    [] OTHER -> "FailedExchangeException"

\* C33: for a response with several status codes the classifier raises the
\* failure kind of the first code, in document order, that is neither NoError
\* nor the out-of-range code, with that code in the message; the codes after
\* it change nothing, and NoError codes before it do not stop it.
C33_FirstFatalCodeDecides ==
  (Classified /\ FatalPositions # {})
  => LET first == CHOOSE i \in FatalPositions : \A j \in FatalPositions : i <= j
     IN lastop.raised = FailureKind(lastop.pre.codes[first]) /\ lastop.arg.key = lastop.pre.codes[first]

\* a fatal code after a NoError, and before a fatal code of another kind, decided
C33_Witness ==
  /\ Classified /\ lastop.pre.codes = <<"NoError", "ErrorItemNotFound", "ErrorChangeKeyRequiredForWriteOperations">>
  /\ lastop.raised = "ExchangeItemNotFoundException"

\* C34: when the refresh request or the update request of update() fails, the
\* dirty set after the call is the dirty set before it; it is cleared only by
\* an update request that succeeded, and the update request of any update()
\* names exactly the dirty set the event had when it was called.
C34_FailedUpdateKeepsDirtySet ==
  OnEvent("update")
  => /\ (\E i \in 1..Len(lastop.resps) : ~Ok(lastop.resps[i])) => entity._dirty_attributes = lastop.pre._dirty_attributes
     /\ entity._dirty_attributes # lastop.pre._dirty_attributes
          => entity._dirty_attributes = {} /\ Len(lastop.calls) = 2 /\ Ok(lastop.resps[2]) /\ lastop.raised = NoRaise
     /\ \A i \in 1..Len(lastop.calls) : lastop.calls[i].op = "UpdateItem" => lastop.calls[i].attrs = lastop.pre._dirty_attributes

\* an update() whose update request failed left the dirty set as it was
C34_Witness ==
  /\ OnEvent("update") /\ Len(lastop.calls) = 2 /\ Ok(lastop.resps[1]) /\ ~Ok(lastop.resps[2])
  /\ lastop.pre._dirty_attributes # {} /\ entity._dirty_attributes = lastop.pre._dirty_attributes

\* C35: a successful move_to() on an event or a folder whose dirty set is empty
\* leaves the dirty set empty.
C35_MoveLeavesClean ==
  (lastop.op = "move_to" /\ lastop.raised = NoRaise /\ lastop.pre._dirty_attributes = {}) => entity._dirty_attributes = {}

\* C37: a refresh_change_key() that returns normally on an event with an id
\* leaves the event with an id, and update(), cancel(), move_to() and
\* resend_invitations() send no mutating request that names the id None.
C37_RefreshKeepsId ==
  /\ (OnEvent("refresh_change_key") /\ ~Falsy(lastop.pre._id) /\ lastop.raised = NoRaise) => ~Falsy(entity._id)
  /\ (lastop.op \in MutatingOperations /\ lastop.pre.kind = "event")
       => \A i \in 1..Len(lastop.calls) : lastop.calls[i].op \in MutatingRequests => ~Falsy(lastop.calls[i].id)

\* C36: update() on a persisted event with an empty dirty set and a valid scope
\* returns normally, sending nothing, whatever the values of its fields are.
C36_CleanUpdateNeverFails ==
  (OnEvent("update") /\ ~Falsy(lastop.pre._id) /\ lastop.pre._dirty_attributes = {} /\ EffectiveScope \in VALID_UPDATE_OPERATION_TYPES)
  => lastop.raised = NoRaise /\ lastop.calls = <<>> /\ entity = lastop.pre

\* C38: in an event list, count is the number of entities in events.
C38_CountIsNumberOfEvents ==
  (entity.kind = "event_list") => entity.count = Len(entity.events)

\* the messages of the last response that name item i of the list and carry a sent date
MessagesFor(i) == {j \in 1..Len(lastop.resps[1].items) : lastop.resps[1].items[j].id = items[i]._id /\ "datetime_sent" \in lastop.resps[1].items[j].has}

\* C39: load_extended_properties() sends one request, naming the ids of the
\* items; afterwards the list holds the same items in the same order, each as
\* it was except for the sent date, which changes only on an item whose id a
\* message of the response carries; when the call returns normally every
\* message with a sent date has set it on an item of its id; no dirty set
\* changes.
C39_HydratesInPlaceById ==
  (lastop.op = "load_extended_properties")
  => /\ lastop.calls = <<get_mail_items(lastop.pre.items)>>
     /\ Len(items) = Len(lastop.pre.items)
     /\ \A i \in 1..Len(items) :
          /\ items[i] = [lastop.pre.items[i] EXCEPT !.vals["datetime_sent"] = items[i].vals["datetime_sent"]]
          /\ items[i].vals["datetime_sent"] # lastop.pre.items[i].vals["datetime_sent"]
               => Ok(lastop.resps[1]) /\ \E j \in MessagesFor(i) : items[i].vals["datetime_sent"] = lastop.resps[1].items[j].val["datetime_sent"]
     /\ DirtySetsUnchanged
     /\ lastop.raised = NoRaise
          => \A j \in 1..Len(lastop.resps[1].items) : "datetime_sent" \in lastop.resps[1].items[j].has
               => \E i \in 1..Len(items) : j \in MessagesFor(i) /\ items[i].vals["datetime_sent"] = lastop.resps[1].items[j].val["datetime_sent"]

\* the first message of the response gave its sent date to the second mail of
\* the list, whose dirty set was not empty, and the first mail was left alone
C39_Witness ==
  /\ lastop.op = "load_extended_properties" /\ lastop.raised = NoRaise /\ Len(items) = 2
  /\ lastop.resps[1].items # <<>> /\ lastop.resps[1].items[1].id = items[2]._id /\ items[1]._id # items[2]._id
  /\ lastop.pre.items[2].vals["datetime_sent"] = NoneS /\ items[2].vals["datetime_sent"] = "x"
  /\ items[1] = lastop.pre.items[1] /\ dirty_of(Before, 2) # {} /\ dirty_of(After, 2) = dirty_of(Before, 2)

====
